---------------------------- MODULE Spec2Model ----------------------------
(***************************************************************************)
(* Model of the recommendation core of the ITMO admission chat bot:        *)
(* src/recommender.py (CourseRecommender), src/database.py                 *)
(* (ProgramDatabase, the Catalog Store and the Profile Store) and          *)
(* src/vector_db.py (QdrantVectorDB, the Similarity Backend wrapper).      *)
(*                                                                         *)
(* Conventions                                                             *)
(*  - a Python str is a sequence of one-character strings, so that         *)
(*    str.lower(), `in` (substring), + and str.join are computed;          *)
(*  - the Cyrillic markers of the source are transliterated:               *)
(*    'выборн' is "vyb", 'обяз' is "ob";                                   *)
(*  - a score is an integer number of hundredths (0.30 is 30, 1.0 is 100); *)
(*    the binary rounding of Python floats is not modelled;                *)
(*  - a Mongo collection is a sequence of documents in insertion order, a  *)
(*    document is a record, the empty dict {} is the empty function;       *)
(*  - the Mongo stores are reliable; the Similarity Backend (embedding     *)
(*    model + Qdrant) may raise on any call;                               *)
(*  - resp is the response of the last operation together with the log of  *)
(*    the collaborator calls the operation made.                           *)
(***************************************************************************)
EXTENDS Integers, Sequences, FiniteSets, TLC

VARIABLES
    use_vector_search,  \* CourseRecommender.use_vector_search
    programs,           \* ProgramDatabase.programs_collection
    user_profiles,      \* ProgramDatabase.user_profiles_collection
    vec_profiles,       \* Qdrant collection "user_profiles"
    vec_courses,        \* Qdrant collection "courses"
    vec_programs,       \* Qdrant collection "programs"
    resp,               \* response of the last operation
    built,              \* a CourseRecommender instance exists
    vector_db,          \* CourseRecommender.vector_db
    db_instance,        \* vector_db._db_instance is not None
    model_instance,     \* embeddings._model_instance is not None
    fsm_state,          \* aiogram FSM state of each user (UserProfileStates)
    fsm_data,           \* aiogram FSM data of each user
    contexts,           \* DialogSystem.contexts
    inflight            \* the calls of the engine that are under way

vars == <<use_vector_search, programs, user_profiles,
          vec_profiles, vec_courses, vec_programs, resp,
          built, vector_db, db_instance, model_instance,
          fsm_state, fsm_data, contexts, inflight>>

\* the state of the process around the engine: the construction of the
\* engine, the conversation state of the bot and the calls under way
front == <<built, vector_db, db_instance, model_instance,
           fsm_state, fsm_data, contexts, inflight>>

stores == <<programs, user_profiles, vec_profiles, vec_courses, vec_programs>>

-----------------------------------------------------------------------------
(* Bounds of the model.                                                    *)

MaxLimit == 2       \* recommend_courses is called with limit in 0..MaxLimit
MaxFailures == 1    \* backend failures injected into one indexing batch

(* Program constants.                                                      *)

InterestWeight == 30        \* score += 0.3
GoalWeight == 25            \* score += 0.25
SkillWeight == 15           \* score += 0.15
BackgroundWeight == 10      \* score += 0.1
MaxScore == 100             \* min(score, 1.0)
ProgInterestWeight == 20    \* score += 0.2
ProgGoalWeight == 30        \* score += 0.3
ProgBackgroundWeight == 15  \* score += 0.15
ScoreThreshold == 0         \* score_threshold: float = 0.0
PlanLimit == 5              \* recommend_courses(user_id, program_id, limit=5)
ProgramLimit == 10          \* recommend_programs_for_user(user_id, limit=10)
MandatoryCap == 10          \* mandatory[:10]

-----------------------------------------------------------------------------
(* Python strings.                                                         *)

LowerChar(c) ==
    CASE c = "A" -> "a" [] c = "B" -> "b" [] c = "D" -> "d"
      [] c = "L" -> "l" [] c = "M" -> "m" [] c = "N" -> "n"
      [] c = "O" -> "o" [] c = "P" -> "p" [] c = "S" -> "s"
      [] c = "V" -> "v" [] c = "Y" -> "y"
      [] OTHER -> c

\* str.lower()
Lower(s) == [i \in 1..Len(s) |-> LowerChar(s[i])]

\* needle in hay  (the empty string is contained in every string)
Contains(needle, hay) ==
    \E i \in 0..(Len(hay) - Len(needle)) :
        SubSeq(hay, i + 1, i + Len(needle)) = needle

\* " ".join(parts)
RECURSIVE Join(_)
Join(parts) ==
    IF parts = <<>> THEN <<>>
    ELSE IF Len(parts) = 1 THEN parts[1]
    ELSE parts[1] \o <<" ">> \o Join(Tail(parts))

\* mutant: seq[:n + 1]
SliceOneMore(seq, n) == SubSeq(seq, 1, IF n + 1 < Len(seq) THEN n + 1 ELSE Len(seq))

\* seq[:n] for a Python slice bound n (a negative bound counts from the end)
Slice(seq, n) ==
    IF n >= 0
    THEN SubSeq(seq, 1, IF n < Len(seq) THEN n ELSE Len(seq))
    ELSE SubSeq(seq, 1, IF Len(seq) + n > 0 THEN Len(seq) + n ELSE 0)

Min(a, b) == IF a < b THEN a ELSE b

-----------------------------------------------------------------------------
(* Documents.                                                              *)

\* the empty dict {}
EmptyDict == [k \in {} |-> 0]

\* dict.get(key, [])
Get(d, key) == IF key \in DOMAIN d THEN d[key] ELSE <<>>

\* the $set update of a document: the fields of upd replace or extend doc
SetFields(doc, upd) ==
    [k \in (DOMAIN doc) \cup (DOMAIN upd) |->
        IF k \in DOMAIN upd THEN upd[k] ELSE doc[k]]

Course(name, type, description) ==
    [name |-> name, type |-> type, description |-> description]

MasterProgram(id, title, description, courses, requirements, skills, career) ==
    [id |-> id, title |-> title, description |-> description,
     courses |-> courses, requirements |-> requirements,
     skills |-> skills, career |-> career]

ElectiveMarker == <<"v", "y", "b">>
MandatoryMarker == <<"o", "b">>

-----------------------------------------------------------------------------
(* The Catalog Store and the Profile Store (src/database.py).              *)

\* find_one({'id': program_id}) on a collection
FindIndex(coll, key, value) ==
    IF \E i \in 1..Len(coll) : coll[i][key] = value
    THEN CHOOSE i \in 1..Len(coll) :
            /\ coll[i][key] = value
            /\ \A j \in 1..(i - 1) : coll[j][key] # value
    ELSE 0

\* update_one(filter, {'$set': doc}, upsert=True)
Upsert(coll, key, value, doc) ==
    LET i == FindIndex(coll, key, value) IN
    IF i = 0 THEN Append(coll, doc)
    ELSE [coll EXCEPT ![i] = SetFields(coll[i], doc)]

None == [none |-> TRUE]

get_program(progs, program_id) ==
    LET i == FindIndex(progs, "id", program_id) IN
    IF i = 0 THEN None ELSE progs[i]

get_all_programs(progs) == progs

RECURSIVE FilterType(_, _)
FilterType(courses, marker) ==
    IF courses = <<>> THEN <<>>
    ELSE LET rest == FilterType(Tail(courses), marker) IN
         IF Contains(marker, Lower(Head(courses).type))
         THEN <<Head(courses)>> \o rest
         ELSE rest

\* mutant: the type filter is dropped
get_elective_courses_unfiltered(progs, program_id) ==
    LET i == FindIndex(progs, "id", program_id) IN
    IF i = 0 THEN <<>> ELSE progs[i].courses

get_elective_courses(progs, program_id) ==
    LET i == FindIndex(progs, "id", program_id) IN
    IF i = 0 THEN <<>> ELSE FilterType(progs[i].courses, ElectiveMarker)

\* user_profiles_collection has a unique index on user_id and is only read
\* and written by user_id: it is a function from user ids to documents
get_user_profile(profs, user_id) ==
    IF user_id \in DOMAIN profs THEN profs[user_id] ELSE EmptyDict

\* mutant: the stored document is replaced (replace_one) instead of merged
update_user_profile_replacing(profs, user_id, profile) ==
    LET doc == SetFields(profile, [user_id |-> user_id]) IN
    [u \in (DOMAIN profs) \cup {user_id} |->
        IF u # user_id THEN profs[u] ELSE doc]

\* profile['user_id'] = user_id; update_one({'user_id': user_id},
\* {'$set': profile}, upsert=True)
update_user_profile(profs, user_id, profile) ==
    LET doc == SetFields(profile, [user_id |-> user_id]) IN
    [u \in (DOMAIN profs) \cup {user_id} |->
        IF u # user_id THEN profs[u]
        ELSE IF user_id \in DOMAIN profs THEN SetFields(profs[user_id], doc)
        ELSE doc]

-----------------------------------------------------------------------------
(* The Relevance Scorer, lexical strategy (src/recommender.py).            *)

\* mutant: the loop breaks at the first match
MatchScoreBreak(fragments, text, weight) ==
    IF \E k \in 1..Len(fragments) : Contains(Lower(fragments[k]), text)
    THEN weight ELSE 0

\* for fragment in fragments: if fragment.lower() in text: score += weight
RECURSIVE MatchScore(_, _, _)
MatchScore(fragments, text, weight) ==
    IF fragments = <<>> THEN 0
    ELSE (IF Contains(Lower(Head(fragments)), text) THEN weight ELSE 0)
         + MatchScore(Tail(fragments), text, weight)

course_text(course) == Lower(course.name \o <<" ">> \o course.description)

\* mutant: return score, without min(score, 1.0)
calculate_relevance_unclamped(course, profile, program) ==
    MatchScore(Get(profile, "interests"), course_text(course), InterestWeight)
    + MatchScore(Get(profile, "goals"), course_text(course), GoalWeight)
    + MatchScore(program.skills, course_text(course), SkillWeight)
    + MatchScore(Get(profile, "background"), course_text(course),
                 BackgroundWeight)

\* mutant: the loop over program.skills is missing
calculate_relevance_no_skills(course, profile, program) ==
    Min(MatchScore(Get(profile, "interests"), course_text(course),
                   InterestWeight)
        + MatchScore(Get(profile, "goals"), course_text(course), GoalWeight)
        + MatchScore(Get(profile, "background"), course_text(course),
                     BackgroundWeight),
        MaxScore)

\* mutant: the score is averaged over the fragments of the profile
calculate_relevance_averaged(course, profile, program) ==
    LET text == course_text(course)
        n == Len(Get(profile, "interests")) + Len(Get(profile, "goals"))
             + Len(Get(profile, "background"))
        score == MatchScore(Get(profile, "interests"), text, InterestWeight)
               + MatchScore(Get(profile, "goals"), text, GoalWeight)
               + MatchScore(program.skills, text, SkillWeight)
               + MatchScore(Get(profile, "background"), text, BackgroundWeight)
    IN Min(IF n = 0 THEN score ELSE score \div n, MaxScore)

calculate_relevance(course, profile, program) ==
    LET text == course_text(course)
        score == MatchScore(Get(profile, "interests"), text, InterestWeight)
               + MatchScore(Get(profile, "goals"), text, GoalWeight)
               + MatchScore(program.skills, text, SkillWeight)
               + MatchScore(Get(profile, "background"), text, BackgroundWeight)
    IN Min(score, MaxScore)

program_text(program) ==
    Lower(program.description) \o <<" ">> \o Lower(Join(program.skills))

career_text(program) == Lower(Join(program.career))

\* mutant: a requirement counts once however many requirements match
RequirementScoreOnce(requirements, background) ==
    IF \E r \in 1..Len(requirements) : \E b \in 1..Len(background) :
          Contains(Lower(background[b]), Lower(requirements[r]))
    THEN ProgBackgroundWeight
    ELSE 0

\* for req in requirements: for bg in background:
\*     if bg.lower() in req.lower(): score += 0.15
RECURSIVE RequirementScore(_, _)
RequirementScore(requirements, background) ==
    IF requirements = <<>> THEN 0
    ELSE MatchScore(background, Lower(Head(requirements)), ProgBackgroundWeight)
         + RequirementScore(Tail(requirements), background)

calculate_program_match(program, profile) ==
    LET score == MatchScore(Get(profile, "interests"), program_text(program),
                            ProgInterestWeight)
               + MatchScore(Get(profile, "goals"), career_text(program),
                            ProgGoalWeight)
               + RequirementScore(program.requirements,
                                  Get(profile, "background"))
    IN Min(score, MaxScore)

-----------------------------------------------------------------------------
(* list.sort(key=lambda x: x[1], reverse=True): a stable sort, so entries  *)
(* with equal scores keep the order they had in the list.                  *)

\* mutant: an entry is placed before the entries of equal score
InsertDescBeforeTies(sorted, x) ==
    LET k == Cardinality({i \in 1..Len(sorted) : sorted[i].score > x.score})
    IN SubSeq(sorted, 1, k) \o <<x>> \o SubSeq(sorted, k + 1, Len(sorted))

InsertDesc(sorted, x) ==
    LET k == Cardinality({i \in 1..Len(sorted) : sorted[i].score >= x.score})
    IN SubSeq(sorted, 1, k) \o <<x>> \o SubSeq(sorted, k + 1, Len(sorted))

RECURSIVE SortDesc(_)
SortDesc(recs) ==
    IF recs = <<>> THEN <<>>
    ELSE InsertDesc(SortDesc(SubSeq(recs, 1, Len(recs) - 1)), recs[Len(recs)])

-----------------------------------------------------------------------------
(* The Recommendation Engine, lexical strategy.                            *)

\* what an operation answers: its return value, or the exception it lets
\* escape, and the collaborator calls it made
Response(result, calls) ==
    [result |-> result, raised |-> "", calls |-> calls]

Raise(exception, calls) ==
    [result |-> <<>>, raised |-> exception, calls |-> calls]

ScoreCourses(courses, profile, program) ==
    [i \in 1..Len(courses) |->
        [course |-> courses[i],
         score |-> calculate_relevance(courses[i], profile, program)]]

\* mutant: the check `if not profile_data` is missing
recommend_courses_classic_unchecked(profs, progs, user_id, program_id, limit) ==
    LET profile_data == get_user_profile(profs, user_id)
        program == get_program(progs, program_id)
        elective_courses == get_elective_courses(progs, program_id)
    IN IF program = None
       THEN Response(<<>>, <<"get_user_profile", "get_program">>)
       ELSE Response(Slice(SortDesc(ScoreCourses(elective_courses,
                                                 profile_data, program)),
                           limit),
                     <<"get_user_profile", "get_program",
                       "get_elective_courses">>)

recommend_courses_classic(profs, progs, user_id, program_id, limit) ==
    LET profile_data == get_user_profile(profs, user_id)
        program == get_program(progs, program_id)
        elective_courses == get_elective_courses(progs, program_id)
        recommendations ==
            SortDesc(ScoreCourses(elective_courses, profile_data, program))
    IN IF DOMAIN profile_data = {}
       THEN Response(<<>>, <<"get_user_profile">>)
       ELSE IF program = None
       THEN Response(<<>>, <<"get_user_profile", "get_program">>)
       ELSE Response(Slice(recommendations, limit),
                     <<"get_user_profile", "get_program",
                       "get_elective_courses">>)

ScorePrograms(progs, profile) ==
    [i \in 1..Len(progs) |->
        [program |-> progs[i],
         score |-> calculate_program_match(progs[i], profile)]]

\* mutant: the lexical ranking is cut like the vector one (limit=10)
recommend_program_classic_limited(profs, progs, user_id) ==
    LET profile_data == get_user_profile(profs, user_id)
    IN IF DOMAIN profile_data = {}
       THEN Response(<<>>, <<"get_user_profile">>)
       ELSE Response(Slice(SortDesc(ScorePrograms(get_all_programs(progs),
                                                  profile_data)),
                           ProgramLimit),
                     <<"get_user_profile", "get_all_programs">>)

recommend_program_classic(profs, progs, user_id) ==
    LET profile_data == get_user_profile(profs, user_id)
    IN IF DOMAIN profile_data = {}
       THEN Response(<<>>, <<"get_user_profile">>)
       ELSE Response(SortDesc(ScorePrograms(get_all_programs(progs),
                                            profile_data)),
                     <<"get_user_profile", "get_all_programs">>)

-----------------------------------------------------------------------------
(* The embedding model (src/embeddings.py).  SentenceTransformer is an     *)
(* external model: here a fixed function from a text to one of six         *)
(* normalised vectors (length 5 in the units used), so that the cosine of  *)
(* two embeddings, in hundredths, is 4 times their dot product.            *)

Vectors == << <<5, 0>>, <<4, 3>>, <<0, 5>>, <<-3, 4>>, <<-5, 0>>, <<3, -4>> >>

CharCode(c) ==
    CASE c = "a" -> 1 [] c = "b" -> 2 [] c = "d" -> 3 [] c = "l" -> 4
      [] c = "m" -> 5 [] c = "n" -> 1 [] c = "p" -> 2 [] c = "s" -> 3
      [] c = "y" -> 4 [] c = " " -> 0 [] c = "_" -> 5
      [] OTHER -> 3

RECURSIVE TextCode(_)
TextCode(text) ==
    IF text = <<>> THEN 0 ELSE CharCode(Head(text)) + TextCode(Tail(text))

\* EmbeddingModel.encode(text, normalize=True)
encode(text) == Vectors[(TextCode(text) % Len(Vectors)) + 1]

encode_course(course_name, course_description) ==
    encode(Join(<<course_name>>
                \o (IF course_description # <<>>
                    THEN <<course_description>> ELSE <<>>)))

encode_user_profile(background, interests, skills, goals) ==
    encode(Join(background \o interests \o skills \o goals))

encode_program(program_title, program_description, skills, career) ==
    encode(Join(<<program_title>>
                \o (IF program_description # <<>>
                    THEN <<program_description>> ELSE <<>>)
                \o skills \o career))

\* cosine similarity (Distance.COSINE), in hundredths
Cosine(u, v) == 4 * (u[1] * v[1] + u[2] * v[2])

-----------------------------------------------------------------------------
(* The Similarity Backend wrapper (src/vector_db.py).  A Qdrant collection *)
(* is a function from point ids to points.  Every add_* operation takes    *)
(* the flag ok: FALSE when the embedding or the upsert raises.             *)

PointStruct(vector, payload) == [vector |-> vector, payload |-> payload]

\* client.upsert(collection_name, points=[point])
PointUpsert(coll, id, point) ==
    [k \in (DOMAIN coll) \cup {id} |-> IF k = id THEN point ELSE coll[k]]

AddResult(coll, success) == [coll |-> coll, success |-> success]

add_course(coll, ok, course_id, program_id, name, description, metadata) ==
    IF ok
    THEN AddResult(PointUpsert(coll, course_id,
                       PointStruct(encode_course(name, description),
                           SetFields([program_id |-> program_id,
                                      name |-> name,
                                      description |-> description],
                                     metadata))),
                   TRUE)
    ELSE AddResult(coll, FALSE)

add_program(coll, ok, program_id, title, description, skills, career, metadata) ==
    IF ok
    THEN AddResult(PointUpsert(coll, program_id,
                       PointStruct(encode_program(title, description,
                                                  skills, career),
                           SetFields([title |-> title,
                                      description |-> description,
                                      skills |-> skills,
                                      career |-> career],
                                     metadata))),
                   TRUE)
    ELSE AddResult(coll, FALSE)

add_user_profile(coll, ok, user_id, background, interests, skills, goals) ==
    IF ok
    THEN AddResult(PointUpsert(coll, user_id,
                       PointStruct(encode_user_profile(background, interests,
                                                       skills, goals),
                           [background |-> background,
                            interests |-> interests,
                            skills |-> skills,
                            goals |-> goals])),
                   TRUE)
    ELSE AddResult(coll, FALSE)

\* mutant: the score threshold is not applied
SearchHitsAnyScore(coll, query, program_id, score_threshold) ==
    {id \in DOMAIN coll :
        program_id # <<>> => coll[id].payload.program_id = program_id}

\* client.search(collection, query_vector, query_filter, limit,
\* score_threshold): the ids of the points that pass the filter and the
\* threshold
SearchHits(coll, query, program_id, score_threshold) ==
    {id \in DOMAIN coll :
        /\ (program_id # <<>> => coll[id].payload.program_id = program_id)
        /\ Cosine(query, coll[id].vector) >= score_threshold}

\* the possible answers of client.search: the limit best hits by descending
\* score; the backend orders hits of equal score as it likes
SearchOrders(coll, query, hits, limit) ==
    LET k == Min(limit, Cardinality(hits)) IN
    {s \in [1..k -> hits] :
        /\ \A i, j \in 1..k : i < j =>
              /\ s[i] # s[j]
              /\ Cosine(query, coll[s[i]].vector)
                   >= Cosine(query, coll[s[j]].vector)
        /\ \A h \in hits : (\A i \in 1..k : s[i] # h) =>
              \A i \in 1..k : Cosine(query, coll[s[i]].vector)
                                >= Cosine(query, coll[h].vector)}

FormatCourseHit(coll, query, id) ==
    [id |-> id,
     score |-> Cosine(query, coll[id].vector),
     name |-> coll[id].payload.name,
     description |-> coll[id].payload.description,
     program_id |-> coll[id].payload.program_id]

\* the possible results of search_courses
search_courses(coll, query_embedding, program_id, limit, score_threshold) ==
    LET hits == SearchHits(coll, query_embedding, program_id, score_threshold)
    IN {[i \in DOMAIN s |-> FormatCourseHit(coll, query_embedding, s[i])] :
            s \in SearchOrders(coll, query_embedding, hits, limit)}

FormatProgramHit(coll, query, id) ==
    [id |-> id,
     score |-> Cosine(query, coll[id].vector),
     title |-> coll[id].payload.title]

\* the possible results of search_programs
search_programs(coll, query_embedding, limit, score_threshold) ==
    LET hits == {id \in DOMAIN coll :
                    Cosine(query_embedding, coll[id].vector)
                        >= score_threshold}
    IN {[i \in DOMAIN s |-> FormatProgramHit(coll, query_embedding, s[i])] :
            s \in SearchOrders(coll, query_embedding, hits, limit)}

\* the possible responses of recommend_courses_for_user; a call of the
\* backend that raises is logged with the suffix :raise
recommend_courses_for_user(vprofs, vcourses, user_id, program_id, limit) ==
    {Response(<<>>, <<"retrieve:raise">>)}           \* except Exception
    \cup (IF user_id \notin DOMAIN vprofs
          THEN {Response(<<>>, <<"retrieve">>)}      \* not profile_result
          ELSE {Response(<<>>, <<"retrieve", "search:raise">>)}
               \cup {Response(r, <<"retrieve", "search">>) :
                       r \in search_courses(vcourses,
                                            vprofs[user_id].vector,
                                            program_id, limit,
                                            ScoreThreshold)})

\* the possible responses of recommend_programs_for_user
recommend_programs_for_user(vprofs, vprogs, user_id, limit) ==
    {Response(<<>>, <<"retrieve:raise">>)}
    \cup (IF user_id \notin DOMAIN vprofs
          THEN {Response(<<>>, <<"retrieve">>)}
          ELSE {Response(<<>>, <<"retrieve", "search:raise">>)}
               \cup {Response(r, <<"retrieve", "search">>) :
                       r \in search_programs(vprogs,
                                             vprofs[user_id].vector,
                                             limit, ScoreThreshold)})

-----------------------------------------------------------------------------
(* The Recommendation Engine, vector strategy and study plan.              *)

\* for course in program.courses: if course.name == name: ...; break
FirstNamed(courses, name) ==
    IF \E i \in 1..Len(courses) : courses[i].name = name
    THEN CHOOSE i \in 1..Len(courses) :
            /\ courses[i].name = name
            /\ \A j \in 1..(i - 1) : courses[j].name # name
    ELSE 0

\* the loop of _recommend_courses_vector over the backend's results
RECURSIVE CourseHits(_, _, _)
CourseHits(progs, vector_results, program_id) ==
    IF vector_results = <<>> THEN <<>>
    ELSE LET result == Head(vector_results)
             program == get_program(progs, program_id)
             i == FirstNamed(program.courses, result.name)
         IN (IF program # None /\ i # 0
             THEN <<[course |-> program.courses[i], score |-> result.score]>>
             ELSE <<>>)
            \o CourseHits(progs, Tail(vector_results), program_id)

Repeat(call, n) == [i \in 1..n |-> call]

\* the possible responses of _recommend_courses_vector
recommend_courses_vector(vprofs, vcourses, progs, user_id, program_id, limit) ==
    {Response(CourseHits(progs, r.result, program_id),
              r.calls \o Repeat("get_program", Len(r.result))) :
        r \in recommend_courses_for_user(vprofs, vcourses, user_id,
                                         program_id, limit)}

\* mutant: an empty vector result falls back to the lexical strategy
recommend_courses_fallback(use_vs, profs, progs, vprofs, vcourses, user_id, program_id, limit) ==
    IF use_vs
    THEN {IF r.result = <<>>
          THEN recommend_courses_classic(profs, progs, user_id, program_id,
                                         limit)
          ELSE r :
            r \in recommend_courses_vector(vprofs, vcourses, progs, user_id,
                                           program_id, limit)}
    ELSE {recommend_courses_classic(profs, progs, user_id, program_id, limit)}

\* the possible responses of recommend_courses
recommend_courses(use_vs, profs, progs, vprofs, vcourses, user_id, program_id, limit) ==
    IF use_vs
    THEN recommend_courses_vector(vprofs, vcourses, progs, user_id,
                                  program_id, limit)
    ELSE {recommend_courses_classic(profs, progs, user_id, program_id, limit)}

\* the loop of _recommend_program_vector over the backend's results
RECURSIVE ProgramHits(_, _)
ProgramHits(progs, vector_results) ==
    IF vector_results = <<>> THEN <<>>
    ELSE LET result == Head(vector_results)
             program == get_program(progs, result.id)
         IN (IF program # None
             THEN <<[program |-> program, score |-> result.score]>>
             ELSE <<>>)
            \o ProgramHits(progs, Tail(vector_results))

\* the possible responses of _recommend_program_vector
recommend_program_vector(vprofs, vprogs, progs, user_id) ==
    {Response(ProgramHits(progs, r.result),
              r.calls \o Repeat("get_program", Len(r.result))) :
        r \in recommend_programs_for_user(vprofs, vprogs, user_id,
                                          ProgramLimit)}

\* the possible responses of recommend_program
recommend_program(use_vs, profs, progs, vprofs, vprogs, user_id) ==
    IF use_vs
    THEN recommend_program_vector(vprofs, vprogs, progs, user_id)
    ELSE {recommend_program_classic(profs, progs, user_id)}

\* return "Программа не найдена"
PlanNotFound == [not_found |-> TRUE]

\* mutant: the mandatory section lists the courses of every type
StudyPlanAnyType(program, profile_data, recommended) ==
    [title |-> program.title,
     mandatory |-> Slice(program.courses, MandatoryCap),
     recommended |-> recommended,
     interests |-> Slice(Get(profile_data, "interests"), 3),
     goals |-> Slice(Get(profile_data, "goals"), 2)]

StudyPlan(program, profile_data, recommended) ==
    [title |-> program.title,
     mandatory |-> Slice(FilterType(program.courses, MandatoryMarker),
                         MandatoryCap),
     recommended |-> recommended,
     interests |-> Slice(Get(profile_data, "interests"), 3),
     goals |-> Slice(Get(profile_data, "goals"), 2)]

\* mutant: the profile is read before the program is looked up
get_study_plan_profile_first(use_vs, profs, progs, vprofs, vcourses, user_id, program_id) ==
    LET program == get_program(progs, program_id)
        profile_data == get_user_profile(profs, user_id)
    IN IF program = None
       THEN {Response(PlanNotFound, <<"get_user_profile", "get_program">>)}
       ELSE {Response(StudyPlan(program, profile_data, rec.result),
                      <<"get_user_profile", "get_program",
                        "recommend_courses">> \o rec.calls) :
                rec \in recommend_courses(use_vs, profs, progs, vprofs,
                                          vcourses, user_id, program_id,
                                          PlanLimit)}

\* the possible responses of get_study_plan
get_study_plan(use_vs, profs, progs, vprofs, vcourses, user_id, program_id) ==
    LET program == get_program(progs, program_id)
        profile_data == get_user_profile(profs, user_id)
    IN IF program = None
       THEN {Response(PlanNotFound, <<"get_program">>)}
       ELSE {Response(StudyPlan(program, profile_data, rec.result),
                      <<"get_program", "get_user_profile",
                        "recommend_courses">> \o rec.calls) :
                rec \in recommend_courses(use_vs, profs, progs, vprofs,
                                          vcourses, user_id, program_id,
                                          PlanLimit)}

-----------------------------------------------------------------------------
(* Indexing of the catalog (src/recommender.py).                           *)

\* index_courses(program_id=None): `if program_id:` is false for None and
\* for the empty string
NoArg == <<>>

CourseId(program_id, course) == program_id \o <<"_">> \o course.name

\* the loop over program.courses: fails holds the positions at which the
\* backend raises inside add_course; a call of add_course that caught an
\* exception of the backend is logged as add_course:raise
RECURSIVE IndexLoop(_, _, _, _, _)
IndexLoop(coll, program_id, courses, fails, pos) ==
    IF pos > Len(courses) THEN [coll |-> coll, count |-> 0, calls |-> <<>>]
    ELSE LET course == courses[pos]
             added == add_course(coll, pos \notin fails,
                                 CourseId(program_id, course), program_id,
                                 course.name, course.description,
                                 [type |-> course.type])
             rest == IndexLoop(added.coll, program_id, courses, fails, pos + 1)
         IN [coll |-> rest.coll,
             count |-> (IF added.success THEN 1 ELSE 0) + rest.count,
             calls |-> <<IF added.success THEN "add_course"
                         ELSE "add_course:raise">> \o rest.calls]

\* MasterProgram has the field id and no attribute program_id, so the
\* expression program.program_id of the branch without argument raises
\* AttributeError at the first course of the first program that has one
HasCourse(progs) == \E i \in 1..Len(progs) : progs[i].courses # <<>>

\* index_courses(program_id): the new collection and the response
index_courses(use_vs, progs, vcourses, program_id, fails) ==
    IF ~use_vs THEN [coll |-> vcourses, resp |-> Response(0, <<>>)]
    ELSE IF program_id # NoArg
    THEN LET program == get_program(progs, program_id)
             done == IndexLoop(vcourses, program_id, program.courses, fails, 1)
         IN IF program = None
            THEN [coll |-> vcourses, resp |-> Response(0, <<"get_program">>)]
            ELSE [coll |-> done.coll,
                  resp |-> Response(done.count,
                               <<"get_program">> \o done.calls)]
    ELSE IF HasCourse(get_all_programs(progs))
    THEN [coll |-> vcourses,
          resp |-> Raise("AttributeError", <<"get_all_programs">>)]
    ELSE [coll |-> vcourses, resp |-> Response(0, <<"get_all_programs">>)]

\* index_programs(): program.program_id raises AttributeError for the first
\* program of the catalog
index_programs(use_vs, progs, vprogs) ==
    IF ~use_vs THEN [coll |-> vprogs, resp |-> Response(0, <<>>)]
    ELSE IF get_all_programs(progs) # <<>>
    THEN [coll |-> vprogs,
          resp |-> Raise("AttributeError", <<"get_all_programs">>)]
    ELSE [coll |-> vprogs, resp |-> Response(0, <<"get_all_programs">>)]

-----------------------------------------------------------------------------
(* create_user_profile (src/recommender.py).                               *)

ProfileDoc(background, interests, skills, goals) ==
    [background |-> background, interests |-> interests,
     skills |-> skills, goals |-> goals, preferred_program |-> <<>>]

-----------------------------------------------------------------------------
(* The inputs of the model.                                                *)

Users == {1, 2}

ML == <<"M", "L">>
ml == <<"m", "l">>
nlp == <<"n", "l", "p">>
ds == <<"d", "s">>
py == <<"p", "y">>

c_nlp == Course(<<"N", "L", "P">>, <<"V", "y", "b">>, ml \o <<" ">> \o ds)
c_ds == Course(ds, <<"v", "y", "b">>, <<>>)
c_py == Course(py, <<"x">>, ml \o <<" ">> \o nlp \o <<" ">> \o ds)
c_bb == Course(<<"b", "_", "b">>, <<"o", "b", "/", "v", "y", "b">>, ml)
c_b == Course(<<"b">>, <<"O", "b">>, nlp)

IdA == <<"a">>
IdAB == <<"a", "_", "b">>

ProgramA1 ==
    MasterProgram(IdA, <<"A">>, ml, <<c_nlp, c_ds, c_py, c_bb>>,
                  <<<<"P", "y">>>>, <<ML>>, <<<<"D", "S">>>>)
ProgramA2 ==
    MasterProgram(IdA, <<"A">>, nlp, <<c_py, c_nlp>>,
                  <<ml, ML>>, <<py>>, <<ml, ds>>)
ProgramB ==
    MasterProgram(IdAB, <<"B">>, <<>>, <<c_b>>, <<ml>>, <<>>, <<>>)

ProgramInputs == {ProgramA1, ProgramA2, ProgramB}

\* the program ids of the requests (each of them is unknown to the catalog
\* until a program with that id is added, and again after it is deleted)
ProgramIds == {IdA, IdAB}

\* <<background, interests, skills, goals>>
ProfileInputs ==
    { <<<<py>>, <<nlp, ML>>, <<py>>, <<ds>>>>,
      <<<<>>, <<>>, <<>>, <<>>>>,
      <<<<>>, <<<<>>>>, <<>>, <<>>>>,
      <<<<ml>>, <<ml, nlp>>, <<>>, <<ds, ML>>>>,
      <<<<>>, <<>>, <<nlp>>, <<>>>> }

VectorProfileInputs ==
    { <<<<py>>, <<nlp, ML>>, <<py>>, <<ds>>>>,
      <<<<>>, <<>>, <<nlp>>, <<>>>> }

-----------------------------------------------------------------------------
(* The state machine.                                                      *)

Request(op, args, r) == [op |-> op, args |-> args] @@ r

\* the aiogram FSM state None: no profile collection is going on
NoState == "none"

\* the callers of the engine whose calls may overlap in time, and a caller
\* without a call under way
Callers == {1, 2}
Idle == [op |-> "idle"]
NoCalls == [c \in Callers |-> Idle]

\* the values of the parameter vector_db of CourseRecommender.__init__ and
\* of the attribute it sets: None, a backend supplied by the caller, the
\* process-wide backend of get_vector_db()
NoBackend == "None"
GivenBackend == "given"
DefaultBackend == "default"

Init ==
    /\ use_vector_search \in BOOLEAN
    /\ programs = <<>>
    /\ user_profiles = EmptyDict
    /\ vec_profiles = EmptyDict
    /\ vec_courses = EmptyDict
    /\ vec_programs = EmptyDict
    /\ resp = Request("init", <<>>, Response(<<>>, <<>>))
    /\ built = TRUE
    /\ vector_db = DefaultBackend
    /\ db_instance = TRUE
    /\ model_instance = TRUE
    /\ fsm_state = [u \in Users |-> NoState]
    /\ fsm_data = [u \in Users |-> EmptyDict]
    /\ contexts = EmptyDict
    /\ inflight = NoCalls

\* ProgramDatabase.add_program(program)
AddProgram(program) ==
    /\ programs' = Upsert(programs, "id", program.id, program)
    /\ resp' = Request("add_program", <<program.id>>,
                       Response(<<>>, <<"update_one">>))
    /\ UNCHANGED <<use_vector_search, user_profiles,
                   vec_profiles, vec_courses, vec_programs, front>>

\* ProgramDatabase.delete_program(program_id)
DeleteProgram(program_id) ==
    LET i == FindIndex(programs, "id", program_id) IN
    /\ programs' = IF i = 0 THEN programs
                   ELSE SubSeq(programs, 1, i - 1)
                        \o SubSeq(programs, i + 1, Len(programs))
    /\ resp' = Request("delete_program", <<program_id>>,
                       Response(i # 0, <<"delete_one">>))
    /\ UNCHANGED <<use_vector_search, user_profiles,
                   vec_profiles, vec_courses, vec_programs, front>>

\* CourseRecommender.create_user_profile; ok is FALSE when the backend
\* raises inside add_user_profile
CreateUserProfile(user_id, p, ok) ==
    LET added == add_user_profile(vec_profiles, ok, user_id,
                                  p[1], p[2], p[3], p[4])
    IN /\ user_profiles' = update_user_profile(user_profiles, user_id,
                               ProfileDoc(p[1], p[2], p[3], p[4]))
       /\ vec_profiles' = IF use_vector_search THEN added.coll
                          ELSE vec_profiles
       /\ resp' = Request("create_user_profile", <<user_id>>,
                     Response(p,
                         IF use_vector_search
                         THEN <<"update_user_profile", "add_user_profile">>
                         ELSE <<"update_user_profile">>))
       /\ UNCHANGED <<use_vector_search, programs, vec_courses, vec_programs,
                      front>>

\* CourseRecommender.recommend_courses(user_id, program_id, limit)
RecommendCourses(user_id, program_id, limit) ==
    /\ \E r \in recommend_courses(use_vector_search, user_profiles, programs,
                                  vec_profiles, vec_courses,
                                  user_id, program_id, limit) :
          resp' = Request("recommend_courses",
                          <<user_id, program_id, limit>>, r)
    /\ UNCHANGED <<use_vector_search, stores, front>>

\* mutant: the best program is remembered as preferred_program of the user
RecommendProgramRemembering(user_id) ==
    /\ \E r \in recommend_program(use_vector_search, user_profiles, programs,
                                  vec_profiles, vec_programs, user_id) :
          /\ resp' = Request("recommend_program", <<user_id>>, r)
          /\ user_profiles' =
                 IF r.raised = "" /\ Len(r.result) > 0
                 THEN update_user_profile(user_profiles, user_id,
                          [preferred_program |-> r.result[1].program.id])
                 ELSE user_profiles
    /\ UNCHANGED <<use_vector_search, programs, vec_profiles, vec_courses,
                   vec_programs, front>>

\* CourseRecommender.recommend_program(user_id)
RecommendProgram(user_id) ==
    /\ \E r \in recommend_program(use_vector_search, user_profiles, programs,
                                  vec_profiles, vec_programs, user_id) :
          resp' = Request("recommend_program", <<user_id>>, r)
    /\ UNCHANGED <<use_vector_search, stores, front>>

\* CourseRecommender.get_study_plan(user_id, program_id)
GetStudyPlan(user_id, program_id) ==
    /\ \E r \in get_study_plan(use_vector_search, user_profiles, programs,
                               vec_profiles, vec_courses,
                               user_id, program_id) :
          resp' = Request("get_study_plan", <<user_id, program_id>>, r)
    /\ UNCHANGED <<use_vector_search, stores, front>>

\* CourseRecommender.index_courses(program_id)
IndexCourses(program_id, fails) ==
    LET done == index_courses(use_vector_search, programs, vec_courses,
                              program_id, fails)
    IN /\ vec_courses' = done.coll
       /\ resp' = Request("index_courses", <<program_id>>, done.resp)
       /\ UNCHANGED <<use_vector_search, programs, user_profiles,
                      vec_profiles, vec_programs, front>>

\* CourseRecommender.index_programs()
IndexPrograms ==
    LET done == index_programs(use_vector_search, programs, vec_programs)
    IN /\ vec_programs' = done.coll
       /\ resp' = Request("index_programs", <<>>, done.resp)
       /\ UNCHANGED <<use_vector_search, programs, user_profiles,
                      vec_profiles, vec_courses, front>>

\* the positions of the indexed course list at which the backend may raise
FailSets(program_id) ==
    LET program == get_program(programs, program_id)
        n == IF program = None THEN 0 ELSE Len(program.courses)
    IN {f \in SUBSET (1..n) : Cardinality(f) <= MaxFailures}

\* under the vector strategy the model draws the profiles of one user from
\* VectorProfileInputs and the other user only sends requests; under the
\* lexical strategy the backend is not called and ok is of no effect
Drawn(user_id, p, ok) ==
    IF use_vector_search
    THEN user_id = 1 /\ p \in VectorProfileInputs
    ELSE ok

Next ==
    \/ \E program \in ProgramInputs : AddProgram(program)
    \/ \E program_id \in ProgramIds : DeleteProgram(program_id)
    \/ \E user_id \in Users, p \in ProfileInputs, ok \in BOOLEAN :
          Drawn(user_id, p, ok) /\ CreateUserProfile(user_id, p, ok)
    \/ \E user_id \in Users, program_id \in ProgramIds, limit \in 0..MaxLimit :
          RecommendCourses(user_id, program_id, limit)
    \/ \E user_id \in Users : RecommendProgram(user_id)
    \/ \E user_id \in Users, program_id \in ProgramIds :
          GetStudyPlan(user_id, program_id)
    \/ \E program_id \in ProgramIds \cup {NoArg} :
          \E fails \in FailSets(program_id) : IndexCourses(program_id, fails)
    \/ IndexPrograms

Spec == Init /\ [][Next]_vars

-----------------------------------------------------------------------------
(* Vocabulary of the properties.                                           *)

\* the profile the Profile Store answers for a user ({} when it has none)
ProfileOf(u) == get_user_profile(user_profiles, u)

HasProfile(u) == u \in DOMAIN user_profiles

HasProgram(program_id) == get_program(programs, program_id) # None

\* the number of fragments of a list whose lowercased text occurs in a text
MatchCount(fragments, text) ==
    Cardinality({k \in 1..Len(fragments) :
                    Contains(Lower(fragments[k]), text)})

Interests(course, profile) ==
    MatchCount(Get(profile, "interests"), course_text(course))
Goals(course, profile) ==
    MatchCount(Get(profile, "goals"), course_text(course))
Backgrounds(course, profile) ==
    MatchCount(Get(profile, "background"), course_text(course))
ProfileSkills(course, profile) ==
    MatchCount(Get(profile, "skills"), course_text(course))
ProgramSkills(course, program) ==
    MatchCount(program.skills, course_text(course))

\* 0.30*i + 0.25*g + 0.15*s + 0.10*b, in hundredths
WeightedSum(course, profile, program) ==
    30 * Interests(course, profile) + 25 * Goals(course, profile)
    + 15 * ProgramSkills(course, program) + 10 * Backgrounds(course, profile)

\* 0.20*i + 0.30*g + 0.15*b for a program, in hundredths
ProgramWeightedSum(program, profile) ==
    20 * MatchCount(Get(profile, "interests"), program_text(program))
    + 30 * MatchCount(Get(profile, "goals"), career_text(program))
    + 15 * Cardinality({rb \in (1..Len(program.requirements))
                                \X (1..Len(Get(profile, "background"))) :
            Contains(Lower(Get(profile, "background")[rb[2]]),
                     Lower(program.requirements[rb[1]]))})

LexicalCourses == ~use_vector_search /\ resp.op = "recommend_courses"
VectorCourses == use_vector_search /\ resp.op = "recommend_courses"

\* the position of a returned course in the catalog order of its program
CatalogPos(program_id, course) ==
    LET program == get_program(programs, program_id)
    IN CHOOSE k \in 1..Len(program.courses) : program.courses[k] = course

Electives(program_id) == get_elective_courses(programs, program_id)

\* the ranking of all elective courses of a program for a user
FullRanking(user_id, program_id) ==
    recommend_courses_classic(user_profiles, programs, user_id, program_id,
                              Len(Electives(program_id))).result

FirstEntries(seq, n) == SubSeq(seq, 1, Min(n, Len(seq)))

Occurs(call, calls) == Cardinality({k \in 1..Len(calls) : calls[k] = call})

BackendRaised ==
    Occurs("retrieve:raise", resp.calls) + Occurs("search:raise", resp.calls) > 0

-----------------------------------------------------------------------------
(* C1: for every profile, every course and every program the lexical       *)
(* course score and the lexical program score lie in [0, 1].               *)
C1_LexicalScoresInUnitInterval ==
    \A u \in Users : \A i \in 1..Len(programs) :
        /\ calculate_program_match(programs[i], ProfileOf(u)) \in 0..100
        /\ \A j \in 1..Len(programs) : \A k \in 1..Len(programs[i].courses) :
              calculate_relevance(programs[i].courses[k], ProfileOf(u),
                                  programs[j]) \in 0..100

\* a stored profile whose matches add up to more than 1.0 for a course, and
\* to more than 1.0 for a program
C1_Witness ==
    /\ \E u \in Users : \E i \in 1..Len(programs) :
          \E k \in 1..Len(programs[i].courses) :
              /\ HasProfile(u)
              /\ WeightedSum(programs[i].courses[k], ProfileOf(u),
                             programs[i]) > 100
    /\ \E u \in Users : \E i \in 1..Len(programs) :
          HasProfile(u) /\ ProgramWeightedSum(programs[i], ProfileOf(u)) > 100

(* C2: every score of a list returned by recommend_courses or              *)
(* recommend_program lies in [0, 1], under the lexical and under the       *)
(* vector strategy.                                                        *)
C2_ReturnedScoresInUnitInterval ==
    resp.op \in {"recommend_courses", "recommend_program"} =>
        \A k \in 1..Len(resp.result) : resp.result[k].score \in 0..100

\* a vector recommendation that returned a hit while the collection held a
\* course of the program whose similarity to the profile is negative
C2_Witness ==
    /\ VectorCourses
    /\ resp.result # <<>>
    /\ \E id \in DOMAIN vec_courses :
          /\ vec_courses[id].payload.program_id = resp.args[2]
          /\ Cosine(vec_profiles[resp.args[1]].vector,
                    vec_courses[id].vector) < 0

(* C3, as stated: the lexical course score is 0 if and only if no fragment *)
(* of the profile's interests, goals, skills or background is a substring  *)
(* of the course's lowercased name+description.                            *)
C3_ZeroIffNoProfileFragment ==
    \A u \in Users : \A i \in 1..Len(programs) :
        \A k \in 1..Len(programs[i].courses) :
            LET course == programs[i].courses[k] IN
            calculate_relevance(course, ProfileOf(u), programs[i]) = 0
            <=> /\ Interests(course, ProfileOf(u)) = 0
                /\ Goals(course, ProfileOf(u)) = 0
                /\ ProfileSkills(course, ProfileOf(u)) = 0
                /\ Backgrounds(course, ProfileOf(u)) = 0

(* C3, amended: the lexical course score is 0 if and only if no fragment   *)
(* of the profile's interests, goals or background and no skill of the     *)
(* program (each lowercased) is a substring of the course's lowercased     *)
(* name+description; the profile's own skills play no part.                *)
C3_ZeroIffNoMatch ==
    \A u \in Users : \A i \in 1..Len(programs) :
        \A k \in 1..Len(programs[i].courses) :
            LET course == programs[i].courses[k] IN
            calculate_relevance(course, ProfileOf(u), programs[i]) = 0
            <=> /\ Interests(course, ProfileOf(u)) = 0
                /\ Goals(course, ProfileOf(u)) = 0
                /\ ProgramSkills(course, programs[i]) = 0
                /\ Backgrounds(course, ProfileOf(u)) = 0

\* a course scored 0 although a skill of the profile occurs in its text, and
\* a course scored above 0 by a skill of the program alone
C3_Witness ==
    /\ \E u \in Users : \E i \in 1..Len(programs) :
          \E k \in 1..Len(programs[i].courses) :
              /\ HasProfile(u)
              /\ ProfileSkills(programs[i].courses[k], ProfileOf(u)) > 0
              /\ calculate_relevance(programs[i].courses[k], ProfileOf(u),
                                     programs[i]) = 0
    /\ \E u \in Users : \E i \in 1..Len(programs) :
          \E k \in 1..Len(programs[i].courses) :
              /\ HasProfile(u)
              /\ Interests(programs[i].courses[k], ProfileOf(u)) = 0
              /\ Goals(programs[i].courses[k], ProfileOf(u)) = 0
              /\ Backgrounds(programs[i].courses[k], ProfileOf(u)) = 0
              /\ calculate_relevance(programs[i].courses[k], ProfileOf(u),
                                     programs[i]) > 0

(* C4: the lexical course score equals min(1.0, 0.30*i + 0.25*g + 0.15*s   *)
(* + 0.10*b) for the numbers i, g, b of matching interest, goal and        *)
(* background fragments and s of matching program skills; two matching     *)
(* interests and one matching goal and nothing else score 0.85.            *)
C4_ScoreIsCappedWeightedSum ==
    \A u \in Users : \A i \in 1..Len(programs) :
        \A j \in 1..Len(programs) : \A k \in 1..Len(programs[i].courses) :
            LET course == programs[i].courses[k]
                score == calculate_relevance(course, ProfileOf(u), programs[j])
            IN /\ score = Min(100, WeightedSum(course, ProfileOf(u),
                                               programs[j]))
               /\ ( /\ Interests(course, ProfileOf(u)) = 2
                    /\ Goals(course, ProfileOf(u)) = 1
                    /\ ProgramSkills(course, programs[j]) = 0
                    /\ Backgrounds(course, ProfileOf(u)) = 0 ) => score = 85

\* a lexical recommendation that returned a course with two matching
\* interests, one matching goal and no other match
C4_Witness ==
    /\ LexicalCourses
    /\ \E k \in 1..Len(resp.result) :
          LET course == resp.result[k].course
              profile == ProfileOf(resp.args[1])
          IN /\ Interests(course, profile) = 2
             /\ Goals(course, profile) = 1
             /\ Backgrounds(course, profile) = 0
             /\ ProgramSkills(course, get_program(programs, resp.args[2])) = 0
             /\ resp.result[k].score = 85

(* C5: under the lexical strategy the list returned by recommend_courses   *)
(* is in descending order of score, and returned courses of equal score    *)
(* are in catalog order.                                                   *)
C5_SortedDescendingTiesInCatalogOrder ==
    LexicalCourses =>
        \A a, b \in 1..Len(resp.result) : a < b =>
            \/ resp.result[a].score > resp.result[b].score
            \/ /\ resp.result[a].score = resp.result[b].score
               /\ CatalogPos(resp.args[2], resp.result[a].course)
                    < CatalogPos(resp.args[2], resp.result[b].course)

\* a returned list with two courses of equal score, the second of which
\* follows in the catalog an elective course of lower score
C5_Witness ==
    /\ LexicalCourses
    /\ Len(resp.result) >= 2
    /\ resp.result[1].score = resp.result[2].score
    /\ \E k \in 1..Len(Electives(resp.args[2])) :
          LET course == Electives(resp.args[2])[k] IN
          /\ CatalogPos(resp.args[2], course)
               < CatalogPos(resp.args[2], resp.result[2].course)
          /\ calculate_relevance(course, ProfileOf(resp.args[1]),
                                 get_program(programs, resp.args[2]))
               < resp.result[2].score

(* C6: under the lexical strategy, for a limit >= 0 and a program with n   *)
(* elective courses, recommend_courses returns the first min(limit, n)     *)
(* entries of the full ranking: never more than limit, nothing for         *)
(* limit = 0 or n = 0, all n for limit > n.                                *)
C6_FirstEntriesOfRanking ==
    LexicalCourses =>
        LET user_id == resp.args[1]
            program_id == resp.args[2]
            limit == resp.args[3]
            n == Len(Electives(program_id))
        IN /\ resp.raised = ""
           /\ resp.result = FirstEntries(FullRanking(user_id, program_id),
                                         Min(limit, n))
           /\ Len(resp.result) <= limit
           /\ (limit = 0 \/ n = 0) => resp.result = <<>>
           /\ (HasProfile(user_id) /\ HasProgram(program_id)) =>
                 /\ Len(resp.result) = Min(limit, n)
                 /\ limit > n => Len(resp.result) = n

\* a call that cut the ranking (0 < limit < n)
C6_Witness ==
    /\ LexicalCourses
    /\ resp.args[3] > 0
    /\ resp.args[3] < Len(Electives(resp.args[2]))
    /\ Len(resp.result) = resp.args[3]

(* C7: recommend_courses returns an empty sequence and raises nothing      *)
(* whenever the Profile Store has no record for the user or the Catalog    *)
(* Store has no program with the given id, under both strategies.          *)
C7_EmptyWithoutProfileOrProgram ==
    ( /\ resp.op = "recommend_courses"
      /\ (~HasProfile(resp.args[1]) \/ ~HasProgram(resp.args[2])) )
    => (resp.result = <<>> /\ resp.raised = "")

\* a vector recommendation for which the backend returned hits of a program
\* that is no longer in the catalog
C7_Witness ==
    /\ VectorCourses
    /\ ~HasProgram(resp.args[2])
    /\ HasProfile(resp.args[1])
    /\ Occurs("get_program", resp.calls) > 0
    /\ resp.result = <<>>

(* C8: under the lexical strategy every course returned by                 *)
(* recommend_courses has a type that contains the elective marker; a       *)
(* course whose type carries no marker is never returned.                  *)
C8_OnlyElectivesReturned ==
    LexicalCourses =>
        \A k \in 1..Len(resp.result) :
            /\ Contains(ElectiveMarker, Lower(resp.result[k].course.type))
            /\ resp.result[k].course.type # <<"x">>

\* a returned list for a program that also has an unclassified course whose
\* score is at least that of every returned course
C8_Witness ==
    /\ LexicalCourses
    /\ resp.result # <<>>
    /\ \E k \in 1..Len(get_program(programs, resp.args[2]).courses) :
          LET program == get_program(programs, resp.args[2])
              course == program.courses[k]
          IN /\ ~Contains(ElectiveMarker, Lower(course.type))
             /\ ~Contains(MandatoryMarker, Lower(course.type))
             /\ calculate_relevance(course, ProfileOf(resp.args[1]), program)
                  >= resp.result[1].score

(* C9: under the vector strategy recommend_courses and recommend_program   *)
(* return an empty sequence, not a lexically scored one, when no embedding *)
(* is stored for the user or a call of the backend raises; the call is not *)
(* repeated and no exception leaves the operation.                         *)
C9_VectorFailureYieldsEmpty ==
    ( /\ use_vector_search
      /\ resp.op \in {"recommend_courses", "recommend_program"}
      /\ (resp.args[1] \notin DOMAIN vec_profiles \/ BackendRaised) )
    => /\ resp.result = <<>>
       /\ resp.raised = ""
       /\ Occurs("retrieve", resp.calls)
            + Occurs("retrieve:raise", resp.calls) = 1
       /\ Occurs("search", resp.calls) + Occurs("search:raise", resp.calls) <= 1
       /\ Occurs("get_user_profile", resp.calls) = 0
       /\ Occurs("get_elective_courses", resp.calls) = 0

\* a vector recommendation without embedding for a user whose stored profile
\* would rank elective courses of the program lexically
C9_Witness ==
    /\ VectorCourses
    /\ resp.args[1] \notin DOMAIN vec_profiles
    /\ resp.args[3] > 0
    /\ FullRanking(resp.args[1], resp.args[2]) # <<>>
    /\ resp.result = <<>>

(* C10: get_study_plan for a program id that is not in the Catalog Store   *)
(* returns the 'program not found' result, raises nothing, and neither     *)
(* reads the profile nor computes a recommendation.                        *)
C10_UnknownProgramNotFound ==
    (resp.op = "get_study_plan" /\ ~HasProgram(resp.args[2])) =>
        /\ resp.result = PlanNotFound
        /\ resp.raised = ""
        /\ resp.calls = <<"get_program">>

\* a plan requested for a missing program by a user who has a profile
C10_Witness ==
    /\ resp.op = "get_study_plan"
    /\ ~HasProgram(resp.args[2])
    /\ HasProfile(resp.args[1])
    /\ resp.result = PlanNotFound

-----------------------------------------------------------------------------
(* Study plans of programs with many mandatory courses.                    *)

MaxMandatory == 11  \* mandatory courses of the largest program of PlanSpec

\* the k-th mandatory course: its name is k times the letter m
MandatoryCourse(k) == Course(Repeat("m", k), <<"O", "b">>, nlp)

\* a program whose catalog order is: an elective course, n mandatory
\* courses, an unclassified course
PlanProgram(n) ==
    MasterProgram(IdA, <<"A">>, ml,
                  <<c_ds>> \o [k \in 1..n |-> MandatoryCourse(k)] \o <<c_py>>,
                  <<>>, <<ML>>, <<>>)

\* the programs of PlanSpec: from no mandatory course to MaxMandatory
PlanPrograms == {PlanProgram(n) : n \in 0..MaxMandatory}

PlanNext ==
    \/ \E program \in PlanPrograms : AddProgram(program)
    \/ \E p \in VectorProfileInputs, ok \in BOOLEAN :
          Drawn(1, p, ok) /\ CreateUserProfile(1, p, ok)
    \/ \E user_id \in Users, program_id \in ProgramIds :
          GetStudyPlan(user_id, program_id)

PlanSpec == Init /\ [][PlanNext]_vars

IsMandatory(course) == Contains(MandatoryMarker, Lower(course.type))

\* the mandatory courses of a stored program, in catalog order
MandatoryCourses(program_id) ==
    SelectSeq(get_program(programs, program_id).courses, IsMandatory)

PlanOfKnownProgram ==
    resp.op = "get_study_plan" /\ HasProgram(resp.args[2])

(* C11 as claimed: for a known program the study plan contains all of the  *)
(* program's mandatory courses, in catalog order, whatever their number.   *)
C11_AllMandatoryCourses ==
    PlanOfKnownProgram =>
        resp.result.mandatory = MandatoryCourses(resp.args[2])

(* C11 as amended: for a known program the study plan contains the first   *)
(* ten mandatory courses of the program (all of them when the program has  *)
(* at most ten), in catalog order.                                         *)
C11_FirstTenMandatoryCourses ==
    PlanOfKnownProgram =>
        resp.result.mandatory
            = FirstEntries(MandatoryCourses(resp.args[2]), 10)

\* a plan of a program with more than ten mandatory courses
C11_Witness ==
    /\ PlanOfKnownProgram
    /\ Len(MandatoryCourses(resp.args[2])) > 10
    /\ Len(resp.result.mandatory) = 10
    /\ resp.result.mandatory[10] = MandatoryCourses(resp.args[2])[10]

-----------------------------------------------------------------------------
(* Indexing of the catalog.                                                *)

RECURSIVE CourseCount(_)
CourseCount(progs) ==
    IF progs = <<>> THEN 0
    ELSE Len(Head(progs).courses) + CourseCount(Tail(progs))

\* the number of courses an index_courses call has to push to the backend
CoursesInScope(program_id) ==
    IF program_id = NoArg THEN CourseCount(programs)
    ELSE IF HasProgram(program_id)
         THEN Len(get_program(programs, program_id).courses)
         ELSE 0

\* the step is a call of index_courses under the vector strategy
IndexCoursesCall == use_vector_search /\ resp'.op = "index_courses"

(* C12: index_courses returns the number of courses whose embedding and    *)
(* upsert succeeded; a failure on one course is skipped, so that every     *)
(* course of the batch is attempted, and no entry indexed before is        *)
(* removed.  The form of index_courses without argument breaks it.         *)
C12_CountsSuccessesAndNeverAborts ==
    [][IndexCoursesCall =>
          /\ resp'.raised = ""
          /\ resp'.result = Occurs("add_course", resp'.calls)
          /\ Occurs("add_course", resp'.calls)
               + Occurs("add_course:raise", resp'.calls)
                 = CoursesInScope(resp'.args[1])
          /\ \A id \in DOMAIN vec_courses : id \in DOMAIN vec_courses'
      ]_vars

\* the last operation was a call of index_courses under the vector strategy
\* in which the backend did not fail
IndexedWithoutFailure ==
    /\ use_vector_search
    /\ resp.op = "index_courses"
    /\ Occurs("add_course:raise", resp.calls) = 0

\* the same call once more, on the unchanged catalog, the backend not
\* failing
SecondIndexCall ==
    index_courses(use_vector_search, programs, vec_courses, resp.args[1], {})

(* C13: calling index_courses twice on an unchanged catalog yields the     *)
(* same count both times and leaves the collection with the same set of    *)
(* entries as after the first call.  The form without argument yields no   *)
(* count at all.                                                           *)
C13_SecondCallSameCountSameEntries ==
    IndexedWithoutFailure =>
        /\ resp.raised = ""
        /\ SecondIndexCall.resp.raised = ""
        /\ SecondIndexCall.resp.result = resp.result
        /\ DOMAIN SecondIndexCall.coll = DOMAIN vec_courses

\* every program of the catalog has an entry in the programs collection
EveryProgramIndexed ==
    \A i \in 1..Len(programs) : programs[i].id \in DOMAIN vec_programs

\* every course of the catalog has an entry in the courses collection
EveryCourseIndexed ==
    \A i \in 1..Len(programs) : \A k \in 1..Len(programs[i].courses) :
        CourseId(programs[i].id, programs[i].courses[k]) \in DOMAIN vec_courses

(* C14: the indexing of the whole catalog (index_courses without argument, *)
(* index_programs) pushes every course and every program through the       *)
(* backend: it completes, and when the backend did not fail every course   *)
(* has an entry in the courses collection and every program an entry in    *)
(* the programs collection.  Both operations raise AttributeError instead. *)
C14_WholeCatalogIndexed ==
    /\ (use_vector_search /\ resp.op = "index_programs") =>
            resp.raised = "" /\ EveryProgramIndexed
    /\ (IndexedWithoutFailure /\ resp.args[1] = NoArg) =>
            resp.raised = "" /\ EveryCourseIndexed

-----------------------------------------------------------------------------
(* Construction of the engine (src/recommender.py, src/vector_db.py,       *)
(* src/embeddings.py).  model_up and qdrant_up tell whether loading the    *)
(* embedding model and reaching the Qdrant server succeed; a call that     *)
(* raises is logged with the suffix :raise.                                *)

Built(ok, dbi, mi, calls) ==
    [ok |-> ok, db_instance |-> dbi, model_instance |-> mi, calls |-> calls]

\* get_embedding_model(): the process-wide model, loaded at the first call
get_embedding_model(mi, model_up) ==
    IF mi THEN Built(TRUE, FALSE, TRUE, <<"get_embedding_model">>)
    ELSE IF model_up
    THEN Built(TRUE, FALSE, TRUE, <<"get_embedding_model", "EmbeddingModel">>)
    ELSE Built(FALSE, FALSE, FALSE,
               <<"get_embedding_model", "EmbeddingModel:raise">>)

\* QdrantVectorDB(): the embedding model, then _ensure_collections_exist
QdrantVectorDB(mi, qdrant_up, model_up) ==
    LET m == get_embedding_model(mi, model_up) IN
    IF ~m.ok THEN Built(FALSE, FALSE, FALSE, <<"QdrantVectorDB">> \o m.calls)
    ELSE IF qdrant_up
    THEN Built(TRUE, TRUE, TRUE,
               <<"QdrantVectorDB">> \o m.calls \o <<"collection_exists">>)
    ELSE Built(FALSE, FALSE, TRUE,
               <<"QdrantVectorDB">> \o m.calls
               \o <<"collection_exists:raise">>)

\* get_vector_db(): the process-wide backend, created at the first call
get_vector_db(dbi, mi, qdrant_up, model_up) ==
    IF dbi THEN Built(TRUE, TRUE, mi, <<"get_vector_db">>)
    ELSE LET q == QdrantVectorDB(mi, qdrant_up, model_up)
         IN Built(q.ok, q.db_instance, q.model_instance,
                  <<"get_vector_db">> \o q.calls)

\* the outcome of CourseRecommender.__init__
Constructed(b, backend, use_vs, dbi, mi, r) ==
    [built |-> b, vector_db |-> backend, use_vector_search |-> use_vs,
     db_instance |-> dbi, model_instance |-> mi, resp |-> r]

\* mutant: the vector strategy without a supplied backend is refused
recommender_init_refusing(arg, use_vs, dbi, mi, qdrant_up, model_up) ==
    LET v == IF arg # NoBackend THEN Built(TRUE, dbi, mi, <<>>)
             ELSE get_vector_db(dbi, mi, qdrant_up, model_up)
        m == get_embedding_model(v.model_instance, model_up)
    IN IF arg = NoBackend /\ use_vs
       THEN Constructed(FALSE, NoBackend, FALSE, dbi, mi,
                        Raise("ValueError", <<>>))
       ELSE IF ~v.ok
       THEN Constructed(FALSE, NoBackend, FALSE, v.db_instance,
                        v.model_instance, Raise("Exception", v.calls))
       ELSE IF ~m.ok
       THEN Constructed(FALSE, NoBackend, FALSE, v.db_instance,
                        m.model_instance,
                        Raise("Exception", v.calls \o m.calls))
       ELSE Constructed(TRUE,
                        IF arg # NoBackend THEN arg ELSE DefaultBackend,
                        use_vs, v.db_instance, m.model_instance,
                        Response(<<>>, v.calls \o m.calls))

\* CourseRecommender.__init__(db, vector_db, use_vector_search):
\* self.vector_db = vector_db or get_vector_db(), then
\* self.embedding_model = get_embedding_model()
recommender_init(arg, use_vs, dbi, mi, qdrant_up, model_up) ==
    LET v == IF arg # NoBackend THEN Built(TRUE, dbi, mi, <<>>)
             ELSE get_vector_db(dbi, mi, qdrant_up, model_up)
        m == get_embedding_model(v.model_instance, model_up)
    IN IF ~v.ok
       THEN Constructed(FALSE, NoBackend, FALSE, v.db_instance,
                        v.model_instance, Raise("Exception", v.calls))
       ELSE IF ~m.ok
       THEN Constructed(FALSE, NoBackend, FALSE, v.db_instance,
                        m.model_instance,
                        Raise("Exception", v.calls \o m.calls))
       ELSE Constructed(TRUE,
                        IF arg # NoBackend THEN arg ELSE DefaultBackend,
                        use_vs, v.db_instance, m.model_instance,
                        Response(<<>>, v.calls \o m.calls))

\* before the construction: no engine, no process-wide backend or model
BuildInit ==
    /\ use_vector_search = FALSE
    /\ programs = <<>>
    /\ user_profiles = EmptyDict
    /\ vec_profiles = EmptyDict
    /\ vec_courses = EmptyDict
    /\ vec_programs = EmptyDict
    /\ resp = Request("init", <<>>, Response(<<>>, <<>>))
    /\ built = FALSE
    /\ vector_db = NoBackend
    /\ db_instance = FALSE
    /\ model_instance = FALSE
    /\ fsm_state = [u \in Users |-> NoState]
    /\ fsm_data = [u \in Users |-> EmptyDict]
    /\ contexts = EmptyDict
    /\ inflight = NoCalls

\* recommender = CourseRecommender(db, vector_db, use_vector_search)
Construct(arg, use_vs, qdrant_up, model_up) ==
    LET c == recommender_init(arg, use_vs, db_instance, model_instance,
                              qdrant_up, model_up)
    IN /\ ~built
       /\ built' = c.built
       /\ vector_db' = c.vector_db
       /\ use_vector_search' = c.use_vector_search
       /\ db_instance' = c.db_instance
       /\ model_instance' = c.model_instance
       /\ resp' = Request("__init__", <<arg, use_vs>>, c.resp)
       /\ UNCHANGED <<stores, fsm_state, fsm_data, contexts, inflight>>

BuildNext ==
    \/ \E arg \in {NoBackend, GivenBackend}, use_vs \in BOOLEAN,
          qdrant_up \in BOOLEAN, model_up \in BOOLEAN :
          Construct(arg, use_vs, qdrant_up, model_up)
    \/ built /\ AddProgram(ProgramB)
    \/ \E user_id \in Users, p \in ProfileInputs, ok \in BOOLEAN :
          built /\ Drawn(user_id, p, ok) /\ CreateUserProfile(user_id, p, ok)
    \/ \E user_id \in Users, program_id \in ProgramIds :
          built /\ RecommendCourses(user_id, program_id, MaxLimit)
    \/ \E user_id \in Users : built /\ RecommendProgram(user_id)

BuildSpec == BuildInit /\ [][BuildNext]_vars

\* the last operation was a construction without a supplied backend
BuiltWithoutBackend == resp.op = "__init__" /\ resp.args[1] = NoBackend

Recommended == resp.op \in {"recommend_courses", "recommend_program"}

(* C15 as claimed: constructing the engine with the vector strategy and no *)
(* backend supplied fails at construction time, no engine exists in that   *)
(* configuration, and no error first appears in a recommendation call.     *)
C15_RefusedWithoutBackend ==
    /\ (BuiltWithoutBackend /\ resp.args[2]) => ~built /\ resp.raised # ""
    /\ built => ~(use_vector_search /\ vector_db = DefaultBackend)
    /\ Recommended => resp.raised = ""

(* C15 as amended: constructing the engine with no backend supplied takes  *)
(* the process-wide backend of get_vector_db(), created at first use,      *)
(* whatever strategy is selected: the construction fails only when creating*)
(* that backend or loading the embedding model raises, otherwise an engine *)
(* with the selected strategy exists; no error appears in a later          *)
(* recommendation call.                                                    *)
C15_DefaultBackendWithoutBackend ==
    /\ BuiltWithoutBackend =>
          /\ built <=> resp.raised = ""
          /\ built => /\ vector_db = DefaultBackend
                      /\ db_instance
                      /\ use_vector_search = resp.args[2]
          /\ resp.raised # "" =>
                Occurs("EmbeddingModel:raise", resp.calls)
                + Occurs("collection_exists:raise", resp.calls) = 1
    /\ Recommended => resp.raised = ""

\* an engine with the vector strategy built without a supplied backend
C15_Witness ==
    /\ BuiltWithoutBackend
    /\ resp.args[2]
    /\ built
    /\ use_vector_search
    /\ vector_db = DefaultBackend

-----------------------------------------------------------------------------
(* The lexical program score.                                              *)

LexicalPrograms == ~use_vector_search /\ resp.op = "recommend_program"

\* i: the interests of the profile contained in the program text
ProgramInterests(program, profile) ==
    MatchCount(Get(profile, "interests"), program_text(program))

\* g: the goals of the profile contained in the career text
ProgramGoals(program, profile) ==
    MatchCount(Get(profile, "goals"), career_text(program))

\* b: the pairs of a requirement and a background fragment that match
ProgramBackgrounds(program, profile) ==
    Cardinality({rb \in (1..Len(program.requirements))
                        \X (1..Len(Get(profile, "background"))) :
        Contains(Lower(Get(profile, "background")[rb[2]]),
                 Lower(program.requirements[rb[1]]))})

(* C16: the lexical program score equals min(1.0, 0.20*i + 0.30*g +        *)
(* 0.15*b), i the interests contained in the lowercased description and    *)
(* skills, g the goals contained in the lowercased career text, b the      *)
(* matches of a background fragment with a requirement; the scores that    *)
(* recommend_program returns are these.                                    *)
C16_ProgramScoreIsCappedWeightedSum ==
    /\ \A u \in Users : \A i \in 1..Len(programs) :
          calculate_program_match(programs[i], ProfileOf(u))
            = Min(100, 20 * ProgramInterests(programs[i], ProfileOf(u))
                       + 30 * ProgramGoals(programs[i], ProfileOf(u))
                       + 15 * ProgramBackgrounds(programs[i], ProfileOf(u)))
    /\ LexicalPrograms =>
          \A k \in 1..Len(resp.result) :
              LET program == resp.result[k].program
                  profile == ProfileOf(resp.args[1])
              IN resp.result[k].score
                   = Min(100, 20 * ProgramInterests(program, profile)
                              + 30 * ProgramGoals(program, profile)
                              + 15 * ProgramBackgrounds(program, profile))

\* a lexical program recommendation that returned a program with one
\* matching interest, one matching goal and one matching requirement
C16_Witness ==
    /\ LexicalPrograms
    /\ \E k \in 1..Len(resp.result) :
          /\ ProgramInterests(resp.result[k].program,
                              ProfileOf(resp.args[1])) = 1
          /\ ProgramGoals(resp.result[k].program,
                          ProfileOf(resp.args[1])) = 1
          /\ ProgramBackgrounds(resp.result[k].program,
                                ProfileOf(resp.args[1])) = 1
          /\ resp.result[k].score = 65

-----------------------------------------------------------------------------
(* Program recommendations over a large catalog.                           *)

MaxPrograms == 11   \* programs of the largest catalog of CatalogSpec

\* the k-th program of the catalog: its id is k times the letter p
NumberedProgram(k) ==
    MasterProgram(Repeat("p", k), <<"P">>,
                  IF k % 2 = 1 THEN ml ELSE nlp,
                  <<>>,
                  IF k % 3 = 0 THEN <<ML>> ELSE <<>>,
                  <<py>>,
                  IF k % 4 = 0 THEN <<ds>> ELSE <<>>)

\* parse_programs: the programs are added one after the other
LoadProgram ==
    /\ Len(programs) < MaxPrograms
    /\ AddProgram(NumberedProgram(Len(programs) + 1))

CatalogNext ==
    \/ LoadProgram
    \/ \E user_id \in Users, p \in ProfileInputs, ok \in BOOLEAN :
          Drawn(user_id, p, ok) /\ CreateUserProfile(user_id, p, ok)
    \/ \E user_id \in Users : RecommendProgram(user_id)

CatalogSpec == Init /\ [][CatalogNext]_vars

(* C17: under the lexical strategy recommend_program, for a user with a    *)
(* stored profile, returns exactly one entry for every program of the      *)
(* catalog, however many there are, in descending order of score.          *)
C17_EveryProgramOnceDescending ==
    (LexicalPrograms /\ HasProfile(resp.args[1])) =>
        /\ Len(resp.result) = Len(programs)
        /\ \A i \in 1..Len(programs) :
              Cardinality({k \in 1..Len(resp.result) :
                              resp.result[k].program = programs[i]}) = 1
        /\ \A a, b \in 1..Len(resp.result) :
              a < b => resp.result[a].score >= resp.result[b].score

\* a lexical ranking of more than ten programs with at least three
\* different scores
C17_Witness ==
    /\ LexicalPrograms
    /\ HasProfile(resp.args[1])
    /\ Len(resp.result) > 10
    /\ resp.result[1].score > resp.result[3].score
    /\ resp.result[3].score > resp.result[Len(resp.result)].score

-----------------------------------------------------------------------------
(* Monotonicity of the lexical course score.                               *)

\* the fragments added to a profile (the empty string is in every text)
Fragments == {ml, ML, nlp, <<>>}

\* the profile with n copies of a fragment added to its interests
AddInterests(profile, fragment, n) ==
    SetFields(profile,
              [interests |-> Get(profile, "interests") \o Repeat(fragment, n)])

(* C18: adding an interest fragment that matches the course text to a      *)
(* profile never decreases the lexical course score of that profile        *)
(* against that course, also when a fragment is added once more.           *)
C18_MatchingInterestNeverDecreases ==
    \A u \in Users : \A i \in 1..Len(programs) :
        \A k \in 1..Len(programs[i].courses) : \A f \in Fragments :
            LET course == programs[i].courses[k] IN
            Contains(Lower(f), course_text(course)) =>
                \A n \in 0..1 :
                    calculate_relevance(course,
                        AddInterests(ProfileOf(u), f, n + 1), programs[i])
                    >= calculate_relevance(course,
                           AddInterests(ProfileOf(u), f, n), programs[i])

\* a lexical recommendation whose best course would score more with one
\* more matching interest, and whose profile scores 1.0 for another course
\* with or without it
C18_Witness ==
    /\ LexicalCourses
    /\ HasProfile(resp.args[1])
    /\ Len(resp.result) >= 1
    /\ \E f \in Fragments :
          /\ Contains(Lower(f), course_text(resp.result[1].course))
          /\ calculate_relevance(resp.result[1].course,
                 AddInterests(ProfileOf(resp.args[1]), f, 1),
                 get_program(programs, resp.args[2]))
               > resp.result[1].score
    /\ \E i \in 1..Len(programs) : \E k \in 1..Len(programs[i].courses) :
          WeightedSum(programs[i].courses[k], ProfileOf(resp.args[1]),
                      programs[i]) >= 100

-----------------------------------------------------------------------------
(* The dialog system (src/dialog_system.py).  Cyrillic keywords are        *)
(* transliterated; of each keyword list the model keeps the keywords that  *)
(* the messages of the model can be tested against with either outcome.    *)
(* The system is built without OpenAI (use_openai is FALSE), so the        *)
(* relevance filter and the chat use their keyword rules only.             *)

\* DialogContext.current_program is None
NoProgram == <<>>

\* DialogContext(user_id): stage "greeting", no current program
DialogContext == [stage |-> "greeting", current_program |-> NoProgram]

\* RelevanceFilter.EDUCATION_KEYWORDS: 'ml', 'программ', 'дисциплин'
EDUCATION_KEYWORDS ==
    { ml,
      <<"p", "r", "o", "g", "r", "a", "m", "m">>,
      <<"d", "i", "s", "c", "i", "p", "l", "i", "n">> }

\* RelevanceFilter.IRRELEVANT_KEYWORDS: 'игр'
IRRELEVANT_KEYWORDS == { <<"i", "g", "r">> }

\* the keys of DialogSystem.faq_answers: 'привет', 'программы'
FaqKeywords ==
    { <<"p", "r", "i", "v", "e", "t">>,
      <<"p", "r", "o", "g", "r", "a", "m", "m", "y">> }

\* len(question.split())
WordCount(question) ==
    Cardinality({i \in 1..Len(question) :
                    /\ question[i] # " "
                    /\ (i = 1 \/ question[i - 1] = " ")})

\* RelevanceFilter.is_relevant(question, context)
is_relevant(question, context) ==
    LET question_lower == Lower(question) IN
    IF \E keyword \in IRRELEVANT_KEYWORDS : Contains(keyword, question_lower)
    THEN FALSE
    ELSE IF \E kw \in EDUCATION_KEYWORDS : Contains(kw, question_lower)
    THEN TRUE
    ELSE IF context.current_program # NoProgram
    THEN TRUE
    ELSE IF WordCount(question) <= 3 /\ context.stage # "greeting"
    THEN TRUE
    ELSE FALSE

\* RelevanceFilter.extract_intent(question): 'сравн' makes the intent
\* compare, 'как' makes it search
extract_intent(question) ==
    LET question_lower == Lower(question) IN
    IF Contains(<<"s", "r", "a", "v", "n">>, question_lower) THEN "compare"
    ELSE IF Contains(<<"k", "a", "k">>, question_lower) THEN "search"
    ELSE "other"

\* what a handler of a stage leaves behind: the context, the Profile
\* Store and the branch that produced the reply
Handled(context, profs, reply) ==
    [context |-> context, profs |-> profs, reply |-> reply]

\* for prog in programs: if prog.title.lower() in message_lower or
\* prog.id in message_lower: the position of the first such program, or 0
MentionedProgram(progs, message_lower) ==
    LET hits == {i \in 1..Len(progs) :
                    \/ Contains(Lower(progs[i].title), message_lower)
                    \/ Contains(progs[i].id, message_lower)}
    IN IF hits = {} THEN 0
       ELSE CHOOSE i \in hits : \A j \in hits : i <= j

\* DialogSystem._handle_chat(context, message, intent)
handle_chat(context, message, intent, profs, progs) ==
    LET message_lower == Lower(message)
        hit == MentionedProgram(progs, message_lower)
    IN IF \/ intent = "search"
          \/ Contains(<<"d", "i", "s", "c", "i", "p", "l", "i", "n">>,
                      message_lower)
          \/ Contains(<<"k", "u", "r", "s">>, message_lower)
       THEN Handled(context, profs, "search_courses")
       ELSE IF hit # 0
       THEN Handled([context EXCEPT !.current_program = progs[hit].id],
                    profs, "program_summary")
       ELSE Handled(context, profs, "chat")

\* DialogSystem._handle_greeting(context, message, intent)
handle_greeting(context, message, intent, profs, progs) ==
    LET message_lower == Lower(message) IN
    IF \E keyword \in FaqKeywords : Contains(keyword, message_lower)
    THEN Handled(context, profs, "faq")
    ELSE IF \/ Contains(<<"p", "r", "o", "g", "r", "a", "m", "m">>,
                        message_lower)
            \/ Contains(<<"m", "a", "g", "i", "s", "t", "r", "a", "t",
                          "u", "r">>, message_lower)
    THEN Handled(context, profs, "programs")
    ELSE Handled([context EXCEPT !.stage = "profile"], profs, "questions")

\* DialogSystem._handle_profile(context, message, intent)
handle_profile(context, message, intent, profs, progs, user_id) ==
    LET profile_data == get_user_profile(profs, user_id)
        Store(field) == update_user_profile(profs, user_id,
                            SetFields(profile_data,
                                      field :> <<message>>))
    IN IF Get(profile_data, "background") = <<>>
       THEN Handled(context, Store("background"), "ask_interests")
       ELSE IF Get(profile_data, "interests") = <<>>
       THEN Handled(context, Store("interests"), "ask_goals")
       ELSE IF Get(profile_data, "goals") = <<>>
       THEN Handled([context EXCEPT !.stage = "recommendation"],
                    Store("goals"), "thanks")
       ELSE handle_chat([context EXCEPT !.stage = "chat"], message, intent,
                        profs, progs)

\* mutant: a message that no branch of the recommendation stage answers
\* sends the dialog back to the greeting
handle_recommendation_restarting(context, message, intent, profs, progs) ==
    LET message_lower == Lower(message)
        hit == MentionedProgram(progs, message_lower)
        courses_asked ==
            \/ Contains(<<"d", "i", "s", "c", "i", "p", "l", "i", "n">>,
                        message_lower)
            \/ Contains(<<"e", "l", "e", "k", "t", "i", "v">>, message_lower)
    IN IF Contains(<<"s", "r", "a", "v", "n">>, message_lower)
          \/ intent = "compare"
       THEN Handled(context, profs, "compare")
       ELSE IF courses_asked /\ context.current_program # NoProgram
       THEN Handled(context, profs, "recommend_courses")
       ELSE IF courses_asked /\ Len(progs) > 0
       THEN Handled([context EXCEPT !.current_program = progs[1].id],
                    profs, "recommend_courses")
       ELSE IF hit # 0
       THEN Handled([context EXCEPT !.current_program = progs[hit].id],
                    profs, "program_summary")
       ELSE handle_greeting([context EXCEPT !.stage = "greeting"], message,
                            intent, profs, progs)

\* DialogSystem._handle_recommendation(context, message, intent)
handle_recommendation(context, message, intent, profs, progs) ==
    LET message_lower == Lower(message)
        hit == MentionedProgram(progs, message_lower)
        courses_asked ==
            \/ Contains(<<"d", "i", "s", "c", "i", "p", "l", "i", "n">>,
                        message_lower)
            \/ Contains(<<"e", "l", "e", "k", "t", "i", "v">>, message_lower)
    IN IF Contains(<<"s", "r", "a", "v", "n">>, message_lower)
          \/ intent = "compare"
       THEN Handled(context, profs, "compare")
       ELSE IF courses_asked /\ context.current_program # NoProgram
       THEN Handled(context, profs, "recommend_courses")
       ELSE IF courses_asked /\ Len(progs) > 0
       THEN Handled([context EXCEPT !.current_program = progs[1].id],
                    profs, "recommend_courses")
       ELSE IF hit # 0
       THEN Handled([context EXCEPT !.current_program = progs[hit].id],
                    profs, "program_summary")
       ELSE handle_chat([context EXCEPT !.stage = "chat"], message, intent,
                        profs, progs)

\* DialogSystem.get_or_create_context(user_id)
get_or_create_context(ctxs, user_id) ==
    IF user_id \in DOMAIN ctxs THEN ctxs
    ELSE [u \in (DOMAIN ctxs) \cup {user_id} |->
             IF u = user_id THEN DialogContext ELSE ctxs[u]]

\* DialogSystem.process_message(user_id, message)
process_message(ctxs, profs, progs, user_id, message) ==
    LET created == get_or_create_context(ctxs, user_id)
        context == created[user_id]
        intent == extract_intent(message)
        done ==
            IF ~is_relevant(message, context)
            THEN Handled(context, profs, "not_relevant")
            ELSE IF context.stage = "greeting"
            THEN handle_greeting(context, message, intent, profs, progs)
            ELSE IF context.stage = "profile"
            THEN handle_profile(context, message, intent, profs, progs,
                                user_id)
            ELSE IF context.stage = "recommendation"
            THEN handle_recommendation(context, message, intent, profs,
                                       progs)
            ELSE handle_chat(context, message, intent, profs, progs)
    IN [contexts |-> [created EXCEPT ![user_id] = done.context],
        profs |-> done.profs,
        reply |-> done.reply]

-----------------------------------------------------------------------------
(* The bot (src/bot.py): the handlers of the dispatcher, in the order of   *)
(* their registration.  A command handler has no state filter and runs in  *)
(* every FSM state; a text that is not a command goes to the handler of    *)
(* the user's FSM state and, without a state, to handle_message.           *)

\* the catalog holds a program with this id
HasStored(program_id) == get_program(programs, program_id) # None

\* UserProfileStates, in the order of the questions
ProfileSteps == <<"background", "interests", "skills", "goals">>

\* the texts of the messages: with an education keyword, naming a program
\* ('программ' holds the id and the lowercased title of program A), asking
\* for courses, without a keyword, with an irrelevant keyword
hi == <<"h", "i">>
Texts ==
    { ml,
      <<"p", "r", "o", "g", "r", "a", "m", "m">>,
      <<"d", "i", "s", "c", "i", "p", "l", "i", "n">>,
      hi,
      <<"i", "g", "r">> }

\* the texts sent as answers to the four questions
Answers == {ml, hi}

\* the user who writes texts; the other users send commands only
Writer == 1

\* the reply of a handler of the bot
Reply(op, user_id, text, reply, calls) ==
    Request(op, <<user_id, text>>, Response(reply, calls))

\* cmd_start, and likewise cmd_help, cmd_programs, cmd_compare and
\* cmd_recommend: they answer and write nothing
cmd_start(user_id) ==
    /\ resp' = Reply("cmd_start", user_id, <<>>, "welcome", <<>>)
    /\ UNCHANGED <<use_vector_search, stores, front>>

\* cmd_profile: state.set_state(UserProfileStates.background)
cmd_profile(user_id) ==
    /\ fsm_state' = [fsm_state EXCEPT ![user_id] = "background"]
    /\ resp' = Reply("cmd_profile", user_id, <<>>, "question_1", <<>>)
    /\ UNCHANGED <<use_vector_search, stores, built, vector_db, db_instance,
                   model_instance, fsm_data, contexts, inflight>>

\* cmd_clear: state.clear(); del dialog_system.contexts[user_id]
cmd_clear(user_id) ==
    /\ fsm_state' = [fsm_state EXCEPT ![user_id] = NoState]
    /\ fsm_data' = [fsm_data EXCEPT ![user_id] = EmptyDict]
    /\ contexts' = [u \in (DOMAIN contexts) \ {user_id} |-> contexts[u]]
    /\ resp' = Reply("cmd_clear", user_id, <<>>, "cleared", <<>>)
    /\ UNCHANGED <<use_vector_search, stores, built, vector_db, db_instance,
                   model_instance, inflight>>

\* state.update_data(key=message.text); state.set_state(next)
Answer(op, user_id, text, key, next, reply) ==
    /\ fsm_state[user_id] = key
    /\ fsm_data' = [fsm_data EXCEPT
                       ![user_id] = SetFields(@, key :> text)]
    /\ fsm_state' = [fsm_state EXCEPT ![user_id] = next]
    /\ resp' = Reply(op, user_id, text, reply, <<>>)
    /\ UNCHANGED <<use_vector_search, stores, built, vector_db, db_instance,
                   model_instance, contexts, inflight>>

process_background(user_id, text) ==
    Answer("process_background", user_id, text, "background", "interests",
           "question_2")

\* mutant: the handler of the interests asks the first question again
process_interests_again(user_id, text) ==
    Answer("process_interests", user_id, text, "interests", "background",
           "question_1")

process_interests(user_id, text) ==
    Answer("process_interests", user_id, text, "interests", "skills",
           "question_3")

process_skills(user_id, text) ==
    Answer("process_skills", user_id, text, "skills", "goals", "question_4")

\* process_goals: the profile is created from the data of the FSM and the
\* FSM is cleared; ok is FALSE when the backend raises inside
\* add_user_profile
process_goals(user_id, text, ok) ==
    LET data == SetFields(fsm_data[user_id], "goals" :> text)
        background == <<Get(data, "background")>>
        interests == <<Get(data, "interests")>>
        skills == <<Get(data, "skills")>>
        goals == <<Get(data, "goals")>>
        added == add_user_profile(vec_profiles, ok, user_id,
                                  background, interests, skills, goals)
    IN /\ fsm_state[user_id] = "goals"
       /\ user_profiles' = update_user_profile(user_profiles, user_id,
                               ProfileDoc(background, interests, skills,
                                          goals))
       /\ vec_profiles' = IF use_vector_search THEN added.coll
                          ELSE vec_profiles
       /\ fsm_state' = [fsm_state EXCEPT ![user_id] = NoState]
       /\ fsm_data' = [fsm_data EXCEPT ![user_id] = EmptyDict]
       /\ resp' = Reply("process_goals", user_id, text, "saved",
                     IF use_vector_search
                     THEN <<"update_user_profile", "add_user_profile">>
                     ELSE <<"update_user_profile">>)
       /\ UNCHANGED <<use_vector_search, programs, vec_courses, vec_programs,
                      built, vector_db, db_instance, model_instance,
                      contexts, inflight>>

\* handle_message: dialog_system.process_message(user_id, message.text)
handle_message(user_id, text) ==
    LET done == process_message(contexts, user_profiles, programs,
                                user_id, text)
    IN /\ fsm_state[user_id] = NoState
       /\ contexts' = done.contexts
       /\ user_profiles' = done.profs
       /\ resp' = Reply("handle_message", user_id, text, done.reply, <<>>)
       /\ UNCHANGED <<use_vector_search, programs, vec_profiles, vec_courses,
                      vec_programs, built, vector_db, db_instance,
                      model_instance, fsm_state, fsm_data, inflight>>

\* data.split("_"): the pieces of data between the underscores
RECURSIVE SplitFrom(_, _, _)
SplitFrom(data, pos, piece) ==
    IF pos > Len(data) THEN <<piece>>
    ELSE IF data[pos] = "_"
    THEN <<piece>> \o SplitFrom(data, pos + 1, <<>>)
    ELSE SplitFrom(data, pos + 1, Append(piece, data[pos]))

Split(data) == SplitFrom(data, 1, <<>>)

\* the callback data of the buttons: f"program_{prog.id}",
\* f"plan_{program_id}", f"recommend_courses_{program_id}"
ProgramButton(program_id) ==
    <<"p", "r", "o", "g", "r", "a", "m", "_">> \o program_id
PlanButton(program_id) == <<"p", "l", "a", "n", "_">> \o program_id
CoursesButton(program_id) ==
    <<"r", "e", "c", "o", "m", "m", "e", "n", "d", "_",
      "c", "o", "u", "r", "s", "e", "s", "_">> \o program_id

\* the reply of a callback handler: the program the button was built for
\* and the program id the handler works with
Pressed(op, user_id, data, built_for, program_id, found) ==
    Request(op, <<user_id, data>>,
            Response([built_for |-> built_for, program_id |-> program_id,
                      found |-> found],
                     <<"get_program">>))

\* cmd_programs: one button per program of the catalog
cmd_programs(user_id) ==
    /\ resp' = Reply("cmd_programs", user_id, <<>>,
                     [i \in 1..Len(programs) |->
                         ProgramButton(programs[i].id)],
                     <<"get_all_programs">>)
    /\ UNCHANGED <<use_vector_search, stores, front>>

\* callback_program: the button of a program of the list is pressed
callback_program(user_id, built_for) ==
    LET data == ProgramButton(built_for)
        program_id == Split(data)[2]
        program == get_program(programs, program_id)
        created == get_or_create_context(contexts, user_id)
    IN /\ HasStored(built_for)
       /\ contexts' = IF program # None
                      THEN [created EXCEPT
                               ![user_id].current_program = program_id]
                      ELSE contexts
       /\ resp' = Pressed("callback_program", user_id, data, built_for,
                          program_id, program # None)
       /\ UNCHANGED <<use_vector_search, stores, built, vector_db,
                      db_instance, model_instance, fsm_state, fsm_data,
                      inflight>>

\* callback_plan: the plan button under the summary that callback_program
\* showed for the button of a program is pressed
callback_plan(user_id, built_for) ==
    LET shown == Split(ProgramButton(built_for))[2]
        data == PlanButton(shown)
        program_id == Split(data)[2]
    IN /\ HasStored(built_for)
       /\ get_program(programs, shown) # None
       /\ resp' = Pressed("callback_plan", user_id, data, built_for,
                          program_id,
                          get_program(programs, program_id) # None)
       /\ UNCHANGED <<use_vector_search, stores, front>>

\* callback_recommend_courses: the courses button under that summary is
\* pressed
callback_recommend_courses(user_id, built_for) ==
    LET shown == Split(ProgramButton(built_for))[2]
        data == CoursesButton(shown)
        program_id == Split(data)[3]
    IN /\ HasStored(built_for)
       /\ get_program(programs, shown) # None
       /\ resp' = Pressed("callback_recommend_courses", user_id, data,
                          built_for, program_id,
                          get_program(programs, program_id) # None)
       /\ UNCHANGED <<use_vector_search, stores, front>>

\* bot.py builds CourseRecommender(db): the vector strategy is the default;
\* main() loads the catalog with parse_programs before polling starts
\* (BotNext keeps the Similarity Backend up while the bot runs)
BotInit ==
    /\ use_vector_search = TRUE
    /\ programs = <<ProgramA1, ProgramB>>
    /\ user_profiles = EmptyDict
    /\ vec_profiles = EmptyDict
    /\ vec_courses = EmptyDict
    /\ vec_programs = EmptyDict
    /\ resp = Request("init", <<>>, Response(<<>>, <<>>))
    /\ built = TRUE
    /\ vector_db = DefaultBackend
    /\ db_instance = TRUE
    /\ model_instance = TRUE
    /\ fsm_state = [u \in Users |-> NoState]
    /\ fsm_data = [u \in Users |-> EmptyDict]
    /\ contexts = EmptyDict
    /\ inflight = NoCalls

BotNext ==
    \/ cmd_start(Writer)
    \/ \E user_id \in Users : cmd_profile(user_id)
    \/ \E user_id \in Users : cmd_clear(user_id)
    \/ \E text \in Answers : process_background(Writer, text)
    \/ \E text \in Answers : process_interests(Writer, text)
    \/ \E text \in Answers : process_skills(Writer, text)
    \/ \E text \in Answers : process_goals(Writer, text, TRUE)
    \/ \E text \in Texts : handle_message(Writer, text)

BotSpec == BotInit /\ [][BotNext]_vars

\* the buttons of the programs, pressed between the messages of a dialog
ButtonNext ==
    \/ \E user_id \in Users : cmd_programs(user_id)
    \/ \E user_id \in Users, program_id \in ProgramIds :
          callback_program(user_id, program_id)
    \/ \E user_id \in Users, program_id \in ProgramIds :
          callback_plan(user_id, program_id)
    \/ \E user_id \in Users, program_id \in ProgramIds :
          callback_recommend_courses(user_id, program_id)
    \/ \E text \in Texts : handle_message(Writer, text)
    \/ \E user_id \in Users : cmd_clear(user_id)

ButtonSpec == BotInit /\ [][ButtonNext]_vars

-----------------------------------------------------------------------------
(* The profile collection flow.                                            *)

\* the position of an FSM state on the path of the questions; 0 without a
\* state
StepRank(state) ==
    IF \E k \in 1..Len(ProfileSteps) : ProfileSteps[k] = state
    THEN CHOOSE k \in 1..Len(ProfileSteps) : ProfileSteps[k] = state
    ELSE 0

Collecting(u) == fsm_state[u] # NoState

\* the last update was handled by the handler op for user u
HandledBy(op, u) == resp'.op = op /\ resp'.args[1] = u

\* the flow of u ends with the saved profile
Completes(u) == fsm_state[u] = "goals" /\ HandledBy("process_goals", u)

(* C19 as stated: from any step of the collection flow no message or       *)
(* command moves the flow to an earlier step, and the flow is given up     *)
(* before completion only by the clear command.                            *)
C19_NeverToAnEarlierStep ==
    [][\A u \in Users :
          Collecting(u) =>
              /\ fsm_state'[u] # NoState =>
                     StepRank(fsm_state'[u]) >= StepRank(fsm_state[u])
              /\ fsm_state'[u] = NoState =>
                     Completes(u) \/ HandledBy("cmd_clear", u)]_vars

(* C19 amended: from any step a text moves the flow one step forward or    *)
(* completes it, the only move to an earlier step is the restart at        *)
(* background by the /profile command, and the flow is given up before     *)
(* completion only by the clear command.                                   *)
C19_ForwardExceptRestartByProfile ==
    [][\A u \in Users :
          Collecting(u) =>
              /\ (/\ fsm_state'[u] # NoState
                  /\ StepRank(fsm_state'[u]) < StepRank(fsm_state[u]))
                 => HandledBy("cmd_profile", u)
              /\ HandledBy("cmd_profile", u) => fsm_state'[u] = "background"
              /\ StepRank(fsm_state'[u]) > StepRank(fsm_state[u])
                 => /\ StepRank(fsm_state'[u]) = StepRank(fsm_state[u]) + 1
                    /\ resp'.op \in {"process_background",
                                     "process_interests", "process_skills"}
                    /\ resp'.args[1] = u
              /\ fsm_state'[u] = NoState =>
                     Completes(u) \/ HandledBy("cmd_clear", u)]_vars

\* the /profile command has taken the flow from the last question back to
\* the first one
C19_Witness ==
    /\ resp.op = "cmd_profile"
    /\ fsm_state[resp.args[1]] = "background"
    /\ "skills" \in DOMAIN fsm_data[resp.args[1]]

-----------------------------------------------------------------------------
(* The end of a profile collection.                                        *)

ProfileFields == {"background", "interests", "skills", "goals"}

\* the Profile Store holds a value for every field of the profile of u
AllFieldsPresent(u) ==
    \A field \in ProfileFields : Get(ProfileOf(u), field) # <<>>

\* the dialog system has left the profile stage of u behind
PastProfileStage(u) ==
    /\ u \in DOMAIN contexts
    /\ contexts[u].stage \in {"recommendation", "chat"}

-----------------------------------------------------------------------------
(* The stores called directly (src/database.py): update_user_profile and   *)
(* get_user_profile with the dictionaries a caller may pass.               *)

\* the dictionaries written: one field, two fields, all fields, none
ProfileDicts ==
    { [background |-> <<ml>>],
      [interests |-> <<nlp>>],
      [background |-> <<py>>, goals |-> <<ds>>],
      ProfileDoc(<<py>>, <<nlp, ML>>, <<py>>, <<ds>>),
      EmptyDict }

\* ProgramDatabase.update_user_profile(user_id, profile)
UpdateUserProfile(user_id, profile) ==
    /\ user_profiles' = update_user_profile(user_profiles, user_id, profile)
    /\ resp' = Request("update_user_profile", <<user_id, profile>>,
                       Response(<<>>, <<"update_one">>))
    /\ UNCHANGED <<use_vector_search, programs, vec_profiles, vec_courses,
                   vec_programs, front>>

\* ProgramDatabase.get_user_profile(user_id)
GetUserProfile(user_id) ==
    /\ resp' = Request("get_user_profile", <<user_id>>,
                       Response(get_user_profile(user_profiles, user_id),
                                <<"find_one">>))
    /\ UNCHANGED <<use_vector_search, stores, front>>

StoreNext ==
    \/ \E user_id \in Users, profile \in ProfileDicts :
          UpdateUserProfile(user_id, profile)
    \/ \E user_id \in Users : GetUserProfile(user_id)

StoreSpec == Init /\ [][StoreNext]_vars

\* the fields of a dictionary other than user_id
FieldsOf(d) == (DOMAIN d) \ {"user_id"}

(* C21 as stated: after update_user_profile(u, P), get_user_profile(u)     *)
(* returns exactly the fields of P and user_id: a field of an earlier      *)
(* write that P does not have is gone.                                     *)
C21_FullOverwrite ==
    [][resp'.op = "update_user_profile" =>
          LET u == resp'.args[1]
              P == resp'.args[2]
              got == get_user_profile(user_profiles', u)
          IN /\ FieldsOf(got) = FieldsOf(P)
             /\ got.user_id = u
             /\ \A k \in FieldsOf(P) : got[k] = P[k]]_vars

(* C21 amended: after update_user_profile(u, P), get_user_profile(u)       *)
(* returns user_id, the fields of P with the values of P, and every field  *)
(* of an earlier write that P does not have, with its earlier value.       *)
C21_FieldwiseOverwrite ==
    [][resp'.op = "update_user_profile" =>
          LET u == resp'.args[1]
              P == resp'.args[2]
              old == get_user_profile(user_profiles, u)
              got == get_user_profile(user_profiles', u)
          IN /\ FieldsOf(got) = FieldsOf(P) \cup FieldsOf(old)
             /\ got.user_id = u
             /\ \A k \in FieldsOf(P) : got[k] = P[k]
             /\ \A k \in FieldsOf(old) \ FieldsOf(P) : got[k] = old[k]]_vars

\* a write has left a field of an earlier write in the stored profile, and
\* has replaced the value of another one
C21_Witness ==
    /\ resp.op = "update_user_profile"
    /\ resp.args[2] = [background |-> <<ml>>]
    /\ ProfileOf(resp.args[1]) =
           [user_id |-> resp.args[1], background |-> <<ml>>,
            goals |-> <<ds>>]

-----------------------------------------------------------------------------
(* The recommendation operations write nothing.                            *)

RecommendationOps == {"recommend_courses", "recommend_program",
                      "get_study_plan"}

\* the calls of the collaborators that write to a store
WritingCalls == {"update_user_profile", "add_user_profile", "add_course",
                 "add_program", "add_course:raise", "update_one"}

(* C22: under either strategy recommend_courses, recommend_program and     *)
(* get_study_plan leave the Catalog Store, the Profile Store and the three *)
(* vector collections as they were, and call no writing operation of a     *)
(* collaborator.                                                           *)
C22_RecommendationsWriteNothing ==
    [][resp'.op \in RecommendationOps =>
          /\ programs' = programs
          /\ user_profiles' = user_profiles
          /\ vec_profiles' = vec_profiles
          /\ vec_courses' = vec_courses
          /\ vec_programs' = vec_programs
          /\ \A k \in 1..Len(resp'.calls) :
                resp'.calls[k] \notin WritingCalls]_vars

\* a study plan of the vector strategy has recommended courses from stores
\* that hold the profile, its embedding and the indexed courses
C22_Witness ==
    /\ use_vector_search
    /\ resp.op = "get_study_plan"
    /\ resp.raised = ""
    /\ resp.result # PlanNotFound
    /\ Len(resp.result.recommended) > 0
    /\ HasProfile(resp.args[1])
    /\ resp.args[1] \in DOMAIN vec_profiles
    /\ vec_courses # EmptyDict

-----------------------------------------------------------------------------
(* compare_programs (src/database.py).                                     *)

CommonShown == 5    \* list(common)[:5]
UniqueShown == 3    \* list(unique1)[:3], list(unique2)[:3]

\* set(prog.skills)
SkillSet(program) == {program.skills[k] : k \in 1..Len(program.skills)}

\* mutant: the skills only in the second program are not reduced by the
\* skills of the first
SkillSplitSecondWhole(prog1, prog2) ==
    [common |-> SkillSet(prog1) \cap SkillSet(prog2),
     unique1 |-> SkillSet(prog1) \ SkillSet(prog2),
     unique2 |-> SkillSet(prog2)]

\* common = skills1 & skills2; unique1 = skills1 - skills2;
\* unique2 = skills2 - skills1
SkillSplit(prog1, prog2) ==
    [common |-> SkillSet(prog1) \cap SkillSet(prog2),
     unique1 |-> SkillSet(prog1) \ SkillSet(prog2),
     unique2 |-> SkillSet(prog2) \ SkillSet(prog1)]

\* list(s)[:n]: the iteration order of a set of strings is not fixed, so
\* any n elements of the set may be the ones shown
Shown(s, n) ==
    {t \in SUBSET s : Cardinality(t) = Min(n, Cardinality(s))}

\* the skill lines of the comparison: a line is written for a non-empty
\* set only
SkillEntries(label, s, n) ==
    IF s = {} THEN {{}}
    ELSE {{[label |-> label, skills |-> t]} : t \in Shown(s, n)}

CompareNotFound == [not_found |-> TRUE]

\* the possible outputs of ProgramDatabase.compare_programs
compare_programs(progs, program_id_1, program_id_2) ==
    LET prog1 == get_program(progs, program_id_1)
        prog2 == get_program(progs, program_id_2)
        split == SkillSplit(prog1, prog2)
    IN IF prog1 = None \/ prog2 = None
       THEN {Response(CompareNotFound, <<"get_program", "get_program">>)}
       ELSE {Response([titles |-> <<prog1.title, prog2.title>>,
                       courses |-> <<Len(prog1.courses), Len(prog2.courses)>>,
                       split |-> split,
                       entries |-> c \cup u1 \cup u2],
                      <<"get_program", "get_program">>) :
                c \in SkillEntries("common", split.common, CommonShown),
                u1 \in SkillEntries("only_1", split.unique1, UniqueShown),
                u2 \in SkillEntries("only_2", split.unique2, UniqueShown)}

IdX == <<"x">>
IdY == <<"y">>
IdZ == <<"z">>

\* programs with four skills (one of them twice), with none, with one and
\* with two; ML and ml are different skills
ProgramX1 ==
    MasterProgram(IdX, <<"X">>, <<>>, <<c_ds>>, <<>>,
                  <<ml, nlp, ds, py, ml>>, <<>>)
ProgramX2 == MasterProgram(IdX, <<"X">>, <<>>, <<>>, <<>>, <<>>, <<>>)
ProgramY == MasterProgram(IdY, <<"Y">>, <<>>, <<>>, <<>>, <<ML>>, <<>>)
ProgramZ == MasterProgram(IdZ, <<"Z">>, <<>>, <<>>, <<>>, <<ml, ML>>, <<>>)

ComparedPrograms == {ProgramX1, ProgramX2, ProgramY, ProgramZ}
ComparedIds == {IdX, IdY, IdZ}

\* ProgramDatabase.compare_programs(program_id_1, program_id_2)
ComparePrograms(program_id_1, program_id_2) ==
    /\ \E r \in compare_programs(programs, program_id_1, program_id_2) :
          resp' = Request("compare_programs",
                          <<program_id_1, program_id_2>>, r)
    /\ UNCHANGED <<use_vector_search, stores, front>>

CompareNext ==
    \/ \E program \in ComparedPrograms : AddProgram(program)
    \/ \E program_id_1 \in ComparedIds, program_id_2 \in ComparedIds :
          ComparePrograms(program_id_1, program_id_2)

CompareSpec == Init /\ [][CompareNext]_vars

\* the last operation compared two programs of the catalog
ComparedExisting ==
    /\ resp.op = "compare_programs"
    /\ resp.result # CompareNotFound

\* the skills listed in the line of a label, {} without such a line
Listed(label) ==
    UNION {e.skills : e \in {x \in resp.result.entries : x.label = label}}

(* C23: comparing two existing programs splits their skills into common,   *)
(* only in the first and only in the second: the three sets are pairwise   *)
(* disjoint and their union is the union of both skill sets; every line of *)
(* the output lists skills of its own set; and the output has no line of   *)
(* common skills when the two skill sets are disjoint.                     *)
C23_SkillsSplitInThreeDisjointSets ==
    ComparedExisting =>
        LET prog1 == get_program(programs, resp.args[1])
            prog2 == get_program(programs, resp.args[2])
            skills1 == {s \in UNION {SkillSet(p) : p \in ComparedPrograms} :
                           \E k \in 1..Len(prog1.skills) : prog1.skills[k] = s}
            skills2 == {s \in UNION {SkillSet(p) : p \in ComparedPrograms} :
                           \E k \in 1..Len(prog2.skills) : prog2.skills[k] = s}
            split == resp.result.split
        IN /\ split.common \cap split.unique1 = {}
           /\ split.common \cap split.unique2 = {}
           /\ split.unique1 \cap split.unique2 = {}
           /\ split.common \cup split.unique1 \cup split.unique2
                  = skills1 \cup skills2
           /\ \A s \in split.common : s \in skills1 /\ s \in skills2
           /\ \A s \in split.unique1 : s \in skills1 /\ s \notin skills2
           /\ \A s \in split.unique2 : s \in skills2 /\ s \notin skills1
           /\ Listed("common") \subseteq split.common
           /\ Listed("only_1") \subseteq split.unique1
           /\ Listed("only_2") \subseteq split.unique2
           /\ (skills1 \cap skills2 = {}) =>
                  ~ \E e \in resp.result.entries : e.label = "common"

\* two programs with disjoint, non-empty skill sets have been compared, the
\* first with more skills of its own than a line shows
C23_Witness ==
    /\ ComparedExisting
    /\ resp.result.split.common = {}
    /\ Cardinality(resp.result.split.unique1) > UniqueShown
    /\ resp.result.split.unique2 # {}
    /\ Cardinality(resp.result.entries) = 2

-----------------------------------------------------------------------------
(* Calls that overlap in time.  The engine holds no lock and the stores    *)
(* are servers of their own, so between two store calls of one operation   *)
(* the store calls of another caller can take place.  Every store call is  *)
(* one step.                                                               *)

\* the calls of an operation that caller c has under way
Underway(c, op) == inflight[c].op = op

\* create_user_profile up to self.db.update_user_profile: the profile is
\* written to the Profile Store
CreateWritesStore(c, user_id, p) ==
    /\ use_vector_search
    /\ Underway(c, "idle")
    /\ user_profiles' = update_user_profile(user_profiles, user_id,
                            ProfileDoc(p[1], p[2], p[3], p[4]))
    /\ inflight' = [inflight EXCEPT
                       ![c] = [op |-> "create_user_profile",
                               user_id |-> user_id, p |-> p]]
    /\ UNCHANGED <<use_vector_search, programs, vec_profiles, vec_courses,
                   vec_programs, resp, built, vector_db, db_instance,
                   model_instance, fsm_state, fsm_data, contexts>>

\* create_user_profile from self.vector_db.add_user_profile to its return;
\* ok is FALSE when the backend raises inside add_user_profile
CreateWritesBackend(c, ok) ==
    LET call == inflight[c]
        added == add_user_profile(vec_profiles, ok, call.user_id,
                                  call.p[1], call.p[2], call.p[3], call.p[4])
    IN /\ Underway(c, "create_user_profile")
       /\ vec_profiles' = added.coll
       /\ inflight' = [inflight EXCEPT ![c] = Idle]
       /\ resp' = Request("create_user_profile", <<call.user_id>>,
                     Response(call.p,
                         <<"update_user_profile", "add_user_profile">>))
       /\ UNCHANGED <<use_vector_search, programs, user_profiles, vec_courses,
                      vec_programs, built, vector_db, db_instance,
                      model_instance, fsm_state, fsm_data, contexts>>

\* the return of a lexical recommend_courses call of caller c
RecommendReturns(c, user_id, program_id, limit, result, calls) ==
    /\ inflight' = [inflight EXCEPT ![c] = Idle]
    /\ resp' = Request("recommend_courses", <<user_id, program_id, limit>>,
                       Response(result, calls))

\* _recommend_courses_classic: profile_data = self.db.get_user_profile
RecommendReadsProfile(c, user_id, program_id, limit) ==
    LET profile_data == get_user_profile(user_profiles, user_id) IN
    /\ ~use_vector_search
    /\ Underway(c, "idle")
    /\ IF DOMAIN profile_data = {}
       THEN RecommendReturns(c, user_id, program_id, limit, <<>>,
                             <<"get_user_profile">>)
       ELSE /\ inflight' = [inflight EXCEPT
                               ![c] = [op |-> "get_program",
                                       user_id |-> user_id,
                                       program_id |-> program_id,
                                       limit |-> limit,
                                       profile_data |-> profile_data]]
            /\ UNCHANGED resp
    /\ UNCHANGED <<use_vector_search, stores, built, vector_db, db_instance,
                   model_instance, fsm_state, fsm_data, contexts>>

\* _recommend_courses_classic: program = self.db.get_program(program_id)
RecommendReadsProgram(c) ==
    LET call == inflight[c]
        program == get_program(programs, call.program_id)
    IN /\ Underway(c, "get_program")
       /\ IF program = None
          THEN RecommendReturns(c, call.user_id, call.program_id, call.limit,
                                <<>>, <<"get_user_profile", "get_program">>)
          ELSE /\ inflight' = [inflight EXCEPT
                                  ![c] = [op |-> "get_elective_courses",
                                          user_id |-> call.user_id,
                                          program_id |-> call.program_id,
                                          limit |-> call.limit,
                                          profile_data |-> call.profile_data,
                                          program |-> program]]
               /\ UNCHANGED resp
       /\ UNCHANGED <<use_vector_search, stores, built, vector_db,
                      db_instance, model_instance, fsm_state, fsm_data,
                      contexts>>

\* _recommend_courses_classic from self.db.get_elective_courses(program_id)
\* to the return: the courses are read from the store again and scored
\* with the program read before
RecommendReadsElectives(c) ==
    LET call == inflight[c]
        elective_courses == get_elective_courses(programs, call.program_id)
        recommendations ==
            SortDesc(ScoreCourses(elective_courses, call.profile_data,
                                  call.program))
    IN /\ Underway(c, "get_elective_courses")
       /\ RecommendReturns(c, call.user_id, call.program_id, call.limit,
                           Slice(recommendations, call.limit),
                           <<"get_user_profile", "get_program",
                             "get_elective_courses">>)
       /\ UNCHANGED <<use_vector_search, stores, built, vector_db,
                      db_instance, model_instance, fsm_state, fsm_data,
                      contexts>>

\* the versions of program a that replace one another in the Catalog Store
Versions == {ProgramA1, ProgramA2}

RaceNext ==
    \/ \E c \in Callers, user_id \in Users, p \in VectorProfileInputs :
          CreateWritesStore(c, user_id, p)
    \/ \E c \in Callers, ok \in BOOLEAN : CreateWritesBackend(c, ok)
    \/ \E p \in VectorProfileInputs :
          ~use_vector_search /\ CreateUserProfile(1, p, TRUE)
    \/ \E program \in Versions : ~use_vector_search /\ AddProgram(program)
    \/ \E c \in Callers, user_id \in Users :
          RecommendReadsProfile(c, user_id, IdA, MaxLimit)
    \/ \E c \in Callers : RecommendReadsProgram(c)
    \/ \E c \in Callers : RecommendReadsElectives(c)

RaceSpec == Init /\ [][RaceNext]_vars

\* no create_user_profile call for user u is under way
Settled(u) ==
    \A c \in Callers :
        Underway(c, "create_user_profile") => inflight[c].user_id # u

\* the fields of a profile that both stores hold
Described(d) ==
    [field \in {"background", "interests", "skills", "goals"} |->
        Get(d, field)]

(* C24: under the vector strategy, once the create_user_profile calls for  *)
(* a user have completed, the profile of the Profile Store and the payload *)
(* of the vector profiles collection for that user come from the same      *)
(* call: they describe the same profile.                                   *)
C24_StoresDescribeTheSameProfile ==
    \A u \in Users :
        (use_vector_search /\ Settled(u) /\ HasProfile(u)
            /\ u \in DOMAIN vec_profiles)
        => Described(ProfileOf(u)) = Described(vec_profiles[u].payload)

\* the ranking of the electives of one version of a program for a profile
RankingOf(version, profile, limit) ==
    Slice(SortDesc(ScoreCourses(
              get_elective_courses(<<version>>, version.id),
              profile, version)),
          limit)

(* C25: when a program is replaced in the Catalog Store while a lexical    *)
(* recommend_courses call for it is under way, the returned ranking is the *)
(* ranking of one single version of the program: the skills used for the   *)
(* scores and the elective courses scored are those of the same version.   *)
C25_RankingOfOneVersion ==
    (LexicalCourses /\ Len(resp.result) > 0) =>
        \E version \in Versions, p \in VectorProfileInputs :
            resp.result = RankingOf(version,
                              ProfileDoc(p[1], p[2], p[3], p[4]),
                              resp.args[3])

-----------------------------------------------------------------------------
(* The two stores of a profile under the vector strategy.                  *)

\* the stored profile of u has a background, interests and goals
ProfileCollected(u) ==
    \A field \in {"background", "interests", "goals"} :
        Get(ProfileOf(u), field) # <<>>

-----------------------------------------------------------------------------
(* The identifiers of the indexed courses.                                 *)

\* the (program id, course name) pair an entry of the courses collection
\* was built from
IndexedPair(entry) == <<entry.payload.program_id, entry.payload.name>>

(* C27: the identifier built by index_courses is injective over (program   *)
(* id, course name) pairs, so an index_courses call never replaces the     *)
(* entry of one pair by the entry of another pair.                         *)
C27_IndexingNeverOverwritesAnotherCourse ==
    [][IndexCoursesCall =>
          \A id \in DOMAIN vec_courses :
              IndexedPair(vec_courses'[id]) = IndexedPair(vec_courses[id])]_vars

-----------------------------------------------------------------------------
(* The program ids carried by the buttons.                                 *)

CallbackOps == {"callback_program", "callback_plan",
                "callback_recommend_courses"}

(* C28: for every program of the catalog, the program id that the          *)
(* program_, plan_ and recommend_courses_ callback handlers decode from    *)
(* the callback data built for that program is the id of that program.     *)
C28_DecodedIdIsTheProgramId ==
    resp.op \in CallbackOps =>
        resp.result.program_id = resp.result.built_for

-----------------------------------------------------------------------------
(* The sections of a study plan.                                           *)

\* the courses of the recommended section of the plan of the last response
RecommendedCourses ==
    {resp.result.recommended[k].course :
        k \in 1..Len(resp.result.recommended)}

\* the courses of the mandatory section
MandatorySection ==
    {resp.result.mandatory[k] : k \in 1..Len(resp.result.mandatory)}

(* C29: in a study plan built by get_study_plan, under either strategy, no *)
(* course is both in the mandatory section and in the recommended section, *)
(* and the recommended section lists at most 5 courses.                    *)
C29_PlanSectionsDisjoint ==
    (resp.op = "get_study_plan" /\ resp.raised = ""
        /\ resp.result # PlanNotFound)
    => /\ MandatorySection \cap RecommendedCourses = {}
       /\ Len(resp.result.recommended) <= PlanLimit

-----------------------------------------------------------------------------
(* The stages of a dialog.                                                 *)

\* DialogContext.stage, in the order of the dialog
Stages == <<"greeting", "profile", "recommendation", "chat">>

StageRank(stage) == CHOOSE k \in 1..Len(Stages) : Stages[k] = stage

\* the context that process_message finds for user u
ContextOf(ctxs, u) == get_or_create_context(ctxs, u)[u]

(* C30: over the process_message calls of a user the stage of the dialog   *)
(* only moves forward along greeting, profile, recommendation, chat, and   *)
(* chat is never left; a message rejected as irrelevant leaves the stage   *)
(* and the current program as they were; and a context disappears (the     *)
(* user is back at the greeting) only by the clear command.                *)
C30_StageOnlyMovesForward ==
    [][\A u \in Users :
          /\ (u \in DOMAIN contexts /\ u \in DOMAIN contexts')
             => StageRank(contexts'[u].stage) >= StageRank(contexts[u].stage)
          /\ (u \in DOMAIN contexts /\ u \notin DOMAIN contexts')
             => HandledBy("cmd_clear", u)
          /\ u \in DOMAIN contexts'
             => contexts'[u].stage \in
                    {Stages[k] : k \in 1..Len(Stages)}
          /\ (HandledBy("handle_message", u)
                /\ resp'.result = "not_relevant")
             => contexts'[u] = ContextOf(contexts, u)]_vars

\* a message has been rejected as irrelevant in the chat stage, which the
\* dialog has reached with a stored profile
C30_Witness ==
    /\ resp.op = "handle_message"
    /\ resp.result = "not_relevant"
    /\ resp.args[1] \in DOMAIN contexts
    /\ contexts[resp.args[1]].stage = "chat"
    /\ ProfileCollected(resp.args[1])

=============================================================================
